---- MODULE Spec2Model ----
(***************************************************************************)
(* Gmail MCP server: the OAuth token lifecycle of GmailClient, the mail    *)
(* operations of GmailClient and the tool dispatch of GmailMCPCloudServer. *)
(*                                                                         *)
(* A Python dict is a function whose DOMAIN is the set of keys present.    *)
(* A text is a tuple of its pieces (format fragments and inserted values). *)
(* An exception is named by its class; str(KeyError(k)) is the pair        *)
(* <<"KeyError", k>>.                                                      *)
(***************************************************************************)
EXTENDS Integers, Sequences, FiniteSets, TLC

(***************************************************************************)
(* Bounds                                                                  *)
(***************************************************************************)
\* the clock runs from 0 to MaxTime
MaxTime == 2
\* a credential issued at time t expires at t + TokenLifetime
TokenLifetime == 1

(***************************************************************************)
(* Python dicts                                                            *)
(***************************************************************************)
EmptyDict == [k \in {} |-> ""]
Opt(k, vs) == {EmptyDict} \cup {k :> v : v \in vs}
Req(k, vs) == {k :> v : v \in vs}
Merge(A, B) == {a @@ b : a \in A, b \in B}
Has(d, k) == k \in DOMAIN d
\* dict.get(k, dflt)
Get(d, k, dflt) == IF k \in DOMAIN d THEN d[k] ELSE dflt

(***************************************************************************)
(* Credentials and the token artifact                                      *)
(***************************************************************************)
NoExpiry == -1
\* token = "" is Python's None; refresh_token FALSE is None
Cred(token, refresh, expiry) ==
    [token |-> token, refresh_token |-> refresh, expiry |-> expiry]
NoCred == Cred("", FALSE, NoExpiry)

\* google.oauth2.credentials.Credentials.expired, as read at gmail_client.py:46
expired(c, t) == c.expiry # NoExpiry /\ t >= c.expiry
\* google.oauth2.credentials.Credentials.valid, as read at gmail_client.py:45
valid(c, t) == c.token # "" /\ ~expired(c, t)

StoredCreds ==
    {Cred(tk, r, e) : tk \in {"", "stored"}, r \in BOOLEAN,
                      e \in {NoExpiry} \cup (1..MaxTime)}

\* the file at GmailConfig.get_token_path()
TokenAbsent == [state |-> "absent", cred |-> NoCred]
TokenCorrupt == [state |-> "corrupt", cred |-> NoCred]
TokenHolding(c) == [state |-> "ok", cred |-> c]
TokenFiles == {TokenAbsent, TokenCorrupt} \cup {TokenHolding(c) : c \in StoredCreds}

\* outcomes of the external calls made while authenticating
AuthEnvs ==
    [refresh : {"ok", "fail"}, consent : {"ok", "fail"},
     grantsRefresh : BOOLEAN, write : {"ok", "fail"}, build : {"ok", "fail"}]

AuthFail(err, creds, file, log) ==
    [ok |-> FALSE, error |-> err, credentials |-> creds, tokenFile |-> file, log |-> log]
AuthDone(creds, file, log) ==
    [ok |-> TRUE, error |-> "", credentials |-> creds, tokenFile |-> file, log |-> log]

\* the save done on every path, also for a credential loaded valid
SaveAlways(creds, file, log, env, mustSave) ==
    IF env.write = "fail"
    THEN AuthFail("PermissionError", creds, file, Append(log, "write_failed"))
    ELSE IF env.build = "fail"
    THEN AuthFail("BuildError", creds, TokenHolding(creds), log \o <<"write", "build_failed">>)
    ELSE AuthDone(creds, TokenHolding(creds), log \o <<"write", "build">>)

\* the save with a failed write ignored and the service built all the same
SaveBestEffort(creds, file, log, env, mustSave) ==
    LET wrote == mustSave /\ env.write = "ok"
        file2 == IF wrote THEN TokenHolding(creds) ELSE file
        log2 == IF ~mustSave THEN log
                ELSE Append(log, IF wrote THEN "write" ELSE "write_failed")
    IN IF env.build = "fail"
       THEN AuthFail("BuildError", creds, file2, Append(log2, "build_failed"))
       ELSE AuthDone(creds, file2, Append(log2, "build"))

\* gmail_client.py:55-60: save the credentials, then build the service
SaveAndBuild(creds, file, log, env, mustSave) ==
    IF mustSave /\ env.write = "fail"
    THEN AuthFail("PermissionError", creds, file, Append(log, "write_failed"))
    ELSE LET file2 == IF mustSave THEN TokenHolding(creds) ELSE file
             log2 == IF mustSave THEN Append(log, "write") ELSE log
         IN IF env.build = "fail"
            THEN AuthFail("BuildError", creds, file2, Append(log2, "build_failed"))
            ELSE AuthDone(creds, file2, Append(log2, "build"))

\* the consent flow run from built-in client settings, no client-secret file read
ConsentWithoutSecret(creds, file, log, env, secret, t) ==
    IF env.consent = "fail"
    THEN AuthFail("ConsentFlowFailed", creds, file, log \o <<"flow", "consent_failed">>)
    ELSE SaveAndBuild(Cred("consent", env.grantsRefresh, t + TokenLifetime),
                      file, log \o <<"flow", "consent">>, env, TRUE)

\* gmail_client.py:49-53: InstalledAppFlow.from_client_secrets_file, run_local_server
ConsentFlow(creds, file, log, env, secret, t) ==
    IF ~secret
    THEN AuthFail("FileNotFoundError", creds, file, Append(log, "flow_failed"))
    ELSE IF env.consent = "fail"
    THEN AuthFail("ConsentFlowFailed", creds, file, log \o <<"flow", "consent_failed">>)
    ELSE SaveAndBuild(Cred("consent", env.grantsRefresh, t + TokenLifetime),
                      file, log \o <<"flow", "consent">>, env, TRUE)

\* the refresh exchange without the save that follows it
RefreshNoSave(creds, file, log, env, secret, t) ==
    IF env.refresh = "fail"
    THEN AuthFail("RefreshError", creds, file, Append(log, "refresh_failed"))
    ELSE SaveAndBuild(Cred("refreshed", creds.refresh_token, t + TokenLifetime),
                      file, Append(log, "refresh"), env, FALSE)

\* the refresh exchange with a failure caught and the consent flow run instead
RefreshFallsBack(creds, file, log, env, secret, t) ==
    IF env.refresh = "fail"
    THEN ConsentFlow(creds, file, Append(log, "refresh_failed"), env, secret, t)
    ELSE SaveAndBuild(Cred("refreshed", creds.refresh_token, t + TokenLifetime),
                      file, Append(log, "refresh"), env, TRUE)

\* gmail_client.py:47: self.credentials.refresh(Request())
RefreshExchange(creds, file, log, env, secret, t) ==
    IF env.refresh = "fail"
    THEN AuthFail("RefreshError", creds, file, Append(log, "refresh_failed"))
    ELSE SaveAndBuild(Cred("refreshed", creds.refresh_token, t + TokenLifetime),
                      file, Append(log, "refresh"), env, TRUE)

\* _authenticate refreshing every expired credential, refresh token or not
AuthRefreshesAnyExpired(file, secret, t, env) ==
    IF file.state = "corrupt"
    THEN AuthFail("ValueError", NoCred, file, <<"load_failed">>)
    ELSE LET loaded == file.state = "ok"
             creds == file.cred
             log == IF loaded THEN <<"load">> ELSE <<>>
         IN IF ~loaded \/ ~valid(creds, t)
            THEN IF loaded /\ expired(creds, t)
                 THEN RefreshExchange(creds, file, log, env, secret, t)
                 ELSE ConsentFlow(creds, file, log, env, secret, t)
            ELSE SaveAndBuild(creds, file, log, env, FALSE)

\* GmailClient._authenticate
_authenticate(file, secret, t, env) ==
    IF file.state = "corrupt"
    THEN AuthFail("ValueError", NoCred, file, <<"load_failed">>)
    ELSE LET loaded == file.state = "ok"
             creds == file.cred
             log == IF loaded THEN <<"load">> ELSE <<>>
         IN IF ~loaded \/ ~valid(creds, t)
            THEN IF loaded /\ expired(creds, t) /\ creds.refresh_token
                 THEN RefreshExchange(creds, file, log, env, secret, t)
                 ELSE ConsentFlow(creds, file, log, env, secret, t)
            ELSE SaveAndBuild(creds, file, log, env, FALSE)

(***************************************************************************)
(* The provider (Gmail REST API) as seen by GmailClient                    *)
(***************************************************************************)
\* outcome of one provider request: success, HttpError, any other exception
Outcomes == {"ok", "http", "exc"}
ExcOf(o) == IF o = "http" THEN <<"HttpError">> ELSE <<"Exception">>

\* urlsafe base64 of a text, and its inverse; Garbage is content that is not
\* valid base64url or not valid UTF-8
b64encode(t) == <<"b64", t>>
Garbage == <<"garbage">>
NoData == <<>>
Decodable(d) == Len(d) = 2 /\ d[1] = "b64"
b64decode(d) == d[2]

Part(mime, filename, data) ==
    [mimeType |-> mime, filename |-> filename,
     body |-> IF data = NoData THEN [size |-> 0] ELSE [size |-> 1, data |-> data]]
Multipart(parts) == [mimeType |-> "multipart/mixed", parts |-> parts]
SinglePart(mime, data) ==
    [mimeType |-> mime,
     body |-> IF data = NoData THEN [size |-> 0] ELSE [size |-> 1, data |-> data]]
Header(n, v) == [name |-> n, value |-> v]
Message(labels, headers, payload) ==
    [threadId |-> "t1", labelIds |-> labels, snippet |-> <<"s", "n", "i", "p">>,
     payload |-> payload @@ [headers |-> headers]]

MsgIds == {"m1", "m2", "m3"}
\* what messages.get returns for each id
Mailbox ==
    [i \in MsgIds |->
       CASE i = "m1" ->
              Message(<<"INBOX", "UNREAD">>,
                      <<Header("Subject", "hello"), Header("From", "a@x")>>,
                      Multipart(<<Part("text/html", "", b64encode("html1")),
                                  Part("text/plain", "", b64encode("plain1")),
                                  Part("application/pdf", "a.pdf", NoData)>>))
         [] i = "m2" ->
              Message(<<"STARRED">>,
                      <<Header("subject", "lower"), Header("To", "b@x"), Header("To", "c@x")>>,
                      SinglePart("text/html", b64encode("html2")))
         [] OTHER ->
              Message(<<"IMPORTANT">>, <<>>,
                      Multipart(<<Part("text/plain", "", Garbage)>>))]

ListResults == {<<>>, <<"m1", "m2">>, <<"m3", "m1">>}
Summary(i) == [id |-> i, threadId |-> "t1"]
Labels ==
    <<[id |-> "INBOX", name |-> "INBOX", type |-> "system", messagesTotal |-> 3],
      [id |-> "L1", name |-> "work", type |-> "user"]>>
Files == {"f1", "f2"}

\* outcomes of the provider requests and file reads of one dispatch
ProvEnvs ==
    [call : Outcomes, listed : ListResults, badGet : {{}, {"m1"}},
     readable : SUBSET Files]

ProvCall(endpoint, id, body) == [endpoint |-> endpoint, id |-> id, body |-> body]

(***************************************************************************)
(* GmailClient: the mail operations.  Each returns                         *)
(*   [raised, error, value, calls]: the exception or the returned value,   *)
(*   and the provider requests it issued, in order.                        *)
(***************************************************************************)
OpRaise(e, calls) == [raised |-> TRUE, error |-> e, value |-> <<>>, calls |-> calls]
OpReturn(v, calls) == [raised |-> FALSE, error |-> <<>>, value |-> v, calls |-> calls]

\* Python truthiness of the str / int / list values used here
FalsyStr(v) == v = ""
FalsyInt(v) == v = 0
FalsySeq(v) == v = <<>>
\* stands for a value that is not a str (e.g. 42)
NonStr == "<non-str>"

\* GmailClient.list_messages; kw is the dict of the arguments that are not None
list_messages(kw, cfg, env) ==
    LET q0 == Get(kw, "query", "")
        n0 == Get(kw, "max_results", 0)
        q == IF FalsyStr(q0) THEN cfg.DEFAULT_QUERY ELSE q0
        n == IF FalsyInt(n0) THEN cfg.DEFAULT_MAX_RESULTS ELSE n0
        body == [q |-> q, maxResults |-> n]
                  @@ (IF Has(kw, "label_ids") THEN [labelIds |-> kw["label_ids"]]
                      ELSE EmptyDict)
        call == ProvCall("messages.list", "", body)
    IN IF env.call = "ok"
       THEN OpReturn([k \in 1..Len(env.listed) |-> Summary(env.listed[k])], <<call>>)
       ELSE OpRaise(ExcOf(env.call), <<call>>)

\* get_message trying a refused request a second time
GetMessageRetrying(message_id, format, outcome) ==
    LET call == ProvCall("messages.get", message_id, [format |-> format])
    IN IF outcome = "ok" /\ message_id \in MsgIds
       THEN OpReturn(Mailbox[message_id], <<call>>)
       ELSE OpRaise(ExcOf(IF outcome = "ok" THEN "http" ELSE outcome), <<call, call>>)

\* GmailClient.get_message
get_message(message_id, format, outcome) ==
    LET call == ProvCall("messages.get", message_id, [format |-> format])
    IN IF outcome = "ok" /\ message_id \in MsgIds
       THEN OpReturn(Mailbox[message_id], <<call>>)
       ELSE OpRaise(ExcOf(IF outcome = "ok" THEN "http" ELSE outcome), <<call>>)


\* the header map keeping the first occurrence of a name
RECURSIVE HeaderDictFirstWins(_)
HeaderDictFirstWins(headers) ==
    IF headers = <<>> THEN EmptyDict
    ELSE (Head(headers).name :> Head(headers).value) @@ HeaderDictFirstWins(Tail(headers))

\* {h['name']: h['value'] for h in headers}: a later occurrence overwrites
RECURSIVE header_dict(_)
header_dict(headers) ==
    IF headers = <<>> THEN EmptyDict
    ELSE LET h == headers[Len(headers)]
         IN (h.name :> h.value) @@ header_dict(SubSeq(headers, 1, Len(headers) - 1))

\* the scan with a decoding failure caught and the part passed over
RECURSIVE ScanLenient(_, _, _)
ScanLenient(parts, k, body) ==
    IF k > Len(parts) THEN [raised |-> FALSE, body |-> body]
    ELSE LET part == parts[k]
             data == Get(part.body, "data", NoData)
         IN IF part.mimeType = "text/plain" /\ data # NoData /\ Decodable(data)
            THEN [raised |-> FALSE, body |-> b64decode(data)]
            ELSE IF part.mimeType = "text/html" /\ body = "" /\ data # NoData
                    /\ Decodable(data)
            THEN ScanLenient(parts, k + 1, b64decode(data))
            ELSE ScanLenient(parts, k + 1, body)

\* the scan taking the first text part with content, plain or html
RECURSIVE ScanFirstText(_, _, _)
ScanFirstText(parts, k, body) ==
    IF k > Len(parts) THEN [raised |-> FALSE, body |-> body]
    ELSE LET part == parts[k]
             data == Get(part.body, "data", NoData)
         IN IF part.mimeType \in {"text/plain", "text/html"} /\ data # NoData
            THEN IF Decodable(data)
                 THEN [raised |-> FALSE, body |-> b64decode(data)]
                 ELSE [raised |-> TRUE, body |-> ""]
            ELSE ScanFirstText(parts, k + 1, body)

\* the scan descending into the parts of a multipart child
RECURSIVE ScanDescending(_, _, _)
ScanDescending(parts, k, body) ==
    IF k > Len(parts) THEN [raised |-> FALSE, body |-> body]
    ELSE LET part == parts[k]
             data == Get(part.body, "data", NoData)
         IN IF Has(part, "parts")
            THEN ScanDescending(part.parts \o SubSeq(parts, k + 1, Len(parts)), 1, body)
            ELSE IF part.mimeType = "text/plain"
            THEN IF data # NoData
                 THEN IF Decodable(data)
                      THEN [raised |-> FALSE, body |-> b64decode(data)]
                      ELSE [raised |-> TRUE, body |-> ""]
                 ELSE ScanDescending(parts, k + 1, body)
            ELSE IF part.mimeType = "text/html" /\ body = ""
            THEN IF data # NoData
                 THEN IF Decodable(data)
                      THEN ScanDescending(parts, k + 1, b64decode(data))
                      ELSE [raised |-> TRUE, body |-> ""]
                 ELSE ScanDescending(parts, k + 1, body)
            ELSE ScanDescending(parts, k + 1, body)

\* the loop of GmailClient._extract_message_body over payload['parts'][k..],
\* body being the value assigned so far
RECURSIVE ScanParts(_, _, _)
ScanParts(parts, k, body) ==
    IF k > Len(parts) THEN [raised |-> FALSE, body |-> body]
    ELSE LET part == parts[k]
             data == Get(part.body, "data", NoData)
         IN IF part.mimeType = "text/plain"
            THEN IF data # NoData
                 THEN IF Decodable(data)
                      THEN [raised |-> FALSE, body |-> b64decode(data)]
                      ELSE [raised |-> TRUE, body |-> ""]
                 ELSE ScanParts(parts, k + 1, body)
            ELSE IF part.mimeType = "text/html" /\ body = ""
            THEN IF data # NoData
                 THEN IF Decodable(data)
                      THEN ScanParts(parts, k + 1, b64decode(data))
                      ELSE [raised |-> TRUE, body |-> ""]
                 ELSE ScanParts(parts, k + 1, body)
            ELSE ScanParts(parts, k + 1, body)

\* the extraction taking the body of a single-part message of any text type
ExtractAnySingleText(payload) ==
    IF Has(payload, "parts")
    THEN ScanParts(payload.parts, 1, "")
    ELSE IF payload.mimeType \in {"text/plain", "text/html"}
    THEN LET data == Get(payload.body, "data", NoData)
         IN IF data # NoData
            THEN IF Decodable(data)
                 THEN [raised |-> FALSE, body |-> b64decode(data)]
                 ELSE [raised |-> TRUE, body |-> ""]
            ELSE [raised |-> FALSE, body |-> ""]
    ELSE [raised |-> FALSE, body |-> ""]

\* GmailClient._extract_message_body
_extract_message_body(payload) ==
    IF Has(payload, "parts")
    THEN ScanParts(payload.parts, 1, "")
    ELSE IF payload.mimeType = "text/plain"
    THEN LET data == Get(payload.body, "data", NoData)
         IN IF data # NoData
            THEN IF Decodable(data)
                 THEN [raised |-> FALSE, body |-> b64decode(data)]
                 ELSE [raised |-> TRUE, body |-> ""]
            ELSE [raised |-> FALSE, body |-> ""]
    ELSE [raised |-> FALSE, body |-> ""]

\* the extraction reporting only the parts stored as separate attachments
RECURSIVE AttachmentsWithId(_, _)
AttachmentsWithId(parts, k) ==
    IF k > Len(parts) THEN <<>>
    ELSE LET part == parts[k]
         IN (IF Get(part, "filename", "") # "" /\ Has(part.body, "attachmentId")
             THEN <<[filename |-> part.filename, mime_type |-> part.mimeType,
                     size |-> Get(part.body, "size", 0),
                     attachment_id |-> Get(part.body, "attachmentId", "")]>>
             ELSE <<>>) \o AttachmentsWithId(parts, k + 1)

\* the loop of GmailClient._extract_attachments over payload['parts'][k..];
\* attachment_id "" is Python's None
RECURSIVE AttachmentsFrom(_, _)
AttachmentsFrom(parts, k) ==
    IF k > Len(parts) THEN <<>>
    ELSE LET part == parts[k]
         IN (IF Get(part, "filename", "") # ""
             THEN <<[filename |-> part.filename, mime_type |-> part.mimeType,
                     size |-> Get(part.body, "size", 0),
                     attachment_id |-> Get(part.body, "attachmentId", "")]>>
             ELSE <<>>) \o AttachmentsFrom(parts, k + 1)

\* GmailClient._extract_attachments
_extract_attachments(payload) ==
    IF Has(payload, "parts") THEN AttachmentsFrom(payload.parts, 1) ELSE <<>>

InSeq(x, s) == \E k \in 1..Len(s) : s[k] = x

\* is_read counted as the presence of UNREAD
LabelFlagsReadOnUnread(label_ids) ==
    [is_read |-> InSeq("UNREAD", label_ids),
     is_starred |-> InSeq("STARRED", label_ids),
     is_important |-> InSeq("IMPORTANT", label_ids)]

\* gmail_client.py:173-175: the flags derived from the labels
LabelFlags(label_ids) ==
    [is_read |-> ~InSeq("UNREAD", label_ids),
     is_starred |-> InSeq("STARRED", label_ids),
     is_important |-> InSeq("IMPORTANT", label_ids)]

\* gmail_client.py:145-178: the details record made of a fetched message
message_details(message_id, message, calls) ==
    LET hd == header_dict(message.payload.headers)
        ext == _extract_message_body(message.payload)
        label_ids == Get(message, "labelIds", <<>>)
    IN IF ext.raised THEN OpRaise(<<"DecodeError">>, calls)
       ELSE OpReturn(
              [id |-> message_id,
               thread_id |-> message.threadId,
               label_ids |-> label_ids,
               snippet |-> message.snippet,
               subject |-> Get(hd, "Subject", "No Subject"),
               from |-> Get(hd, "From", "Unknown Sender"),
               to |-> Get(hd, "To", "Unknown Recipient"),
               cc |-> Get(hd, "Cc", ""),
               bcc |-> Get(hd, "Bcc", ""),
               date |-> Get(hd, "Date", ""),
               message_id |-> Get(hd, "Message-ID", ""),
               body |-> ext.body,
               attachments |-> _extract_attachments(message.payload)]
              @@ LabelFlags(label_ids),
              calls)

\* GmailClient.get_message_details
get_message_details(message_id, outcome) ==
    LET got == get_message(message_id, "full", outcome)
    IN IF got.raised THEN got
       ELSE message_details(message_id, got.value, got.calls)

\* the attachment loop given up at the first file that cannot be read
RECURSIVE AttachmentsUntilUnreadable(_, _, _)
AttachmentsUntilUnreadable(paths, k, readable) ==
    IF k > Len(paths) \/ paths[k] \notin readable THEN <<>>
    ELSE <<[type |-> "application/octet-stream", filename |-> paths[k]]>>
           \o AttachmentsUntilUnreadable(paths, k + 1, readable)

\* the attachment loop of GmailClient.send_message: one part per readable path
RECURSIVE AttachmentParts(_, _, _)
AttachmentParts(paths, k, readable) ==
    IF k > Len(paths) THEN <<>>
    ELSE (IF paths[k] \in readable
          THEN <<[type |-> "application/octet-stream", filename |-> paths[k]]>>
          ELSE <<>>) \o AttachmentParts(paths, k + 1, readable)

\* ', '.join(addresses)
Join(addresses) == [sep |-> ", ", items |-> addresses]

\* GmailClient.send_message
send_message(to, subject, body, cc, bcc, attachments, html_body, env) ==
    LET echo == [to |-> to, subject |-> subject]
    IN IF to = NonStr \/ subject = NonStr \/ body = NonStr
       THEN OpReturn([success |-> FALSE, error |-> <<"AttributeError">>] @@ echo, <<>>)
       ELSE
       LET mime == [subtype |-> "alternative", to |-> to, subject |-> subject,
                    parts |-> <<[type |-> "text/plain", text |-> body]>>
                              \o (IF FalsyStr(html_body) THEN <<>>
                                  ELSE <<[type |-> "text/html", text |-> html_body]>>)
                              \o AttachmentParts(attachments, 1, env.readable)]
                     @@ (IF FalsySeq(cc) THEN EmptyDict ELSE [cc |-> Join(cc)])
                     @@ (IF FalsySeq(bcc) THEN EmptyDict ELSE [bcc |-> Join(bcc)])
           call == ProvCall("messages.send", "", [raw |-> b64encode(mime)])
       IN IF env.call = "ok"
          THEN OpReturn([success |-> TRUE, message_id |-> "sent1", thread_id |-> "t9"]
                          @@ echo, <<call>>)
          ELSE OpReturn([success |-> FALSE, error |-> ExcOf(env.call)] @@ echo, <<call>>)

\* modify_message refusing a request that names no label, without a provider call
ModifyRejectsEmpty(message_id, add_label_ids, remove_label_ids, env) ==
    LET body == (IF FalsySeq(add_label_ids) THEN EmptyDict
                 ELSE [addLabelIds |-> add_label_ids])
                @@ (IF FalsySeq(remove_label_ids) THEN EmptyDict
                    ELSE [removeLabelIds |-> remove_label_ids])
        call == ProvCall("messages.modify", message_id, body)
    IN IF body = EmptyDict
       THEN OpReturn([success |-> FALSE, error |-> <<"ValueError">>,
                      message_id |-> message_id], <<>>)
       ELSE IF env.call = "ok"
       THEN OpReturn([success |-> TRUE, message_id |-> message_id,
                      result |-> [id |-> message_id]], <<call>>)
       ELSE OpReturn([success |-> FALSE, error |-> ExcOf(env.call),
                      message_id |-> message_id], <<call>>)

\* GmailClient.modify_message
modify_message(message_id, add_label_ids, remove_label_ids, env) ==
    LET body == (IF FalsySeq(add_label_ids) THEN EmptyDict
                 ELSE [addLabelIds |-> add_label_ids])
                @@ (IF FalsySeq(remove_label_ids) THEN EmptyDict
                    ELSE [removeLabelIds |-> remove_label_ids])
        call == ProvCall("messages.modify", message_id, body)
    IN IF env.call = "ok"
       THEN OpReturn([success |-> TRUE, message_id |-> message_id,
                      result |-> [id |-> message_id]], <<call>>)
       ELSE OpReturn([success |-> FALSE, error |-> ExcOf(env.call),
                      message_id |-> message_id], <<call>>)

\* delete_message re-raising the provider's failure as the read-only operations do
DeleteRaises(message_id, env) ==
    LET call == ProvCall("messages.delete", message_id, EmptyDict)
    IN IF env.call = "ok"
       THEN OpReturn([success |-> TRUE, message_id |-> message_id], <<call>>)
       ELSE OpRaise(ExcOf(env.call), <<call>>)

\* GmailClient.delete_message
delete_message(message_id, env) ==
    LET call == ProvCall("messages.delete", message_id, EmptyDict)
    IN IF env.call = "ok"
       THEN OpReturn([success |-> TRUE, message_id |-> message_id], <<call>>)
       ELSE OpReturn([success |-> FALSE, error |-> ExcOf(env.call),
                      message_id |-> message_id], <<call>>)

\* GmailClient.get_labels
get_labels(env) ==
    LET call == ProvCall("labels.list", "", EmptyDict)
    IN IF env.call = "ok" THEN OpReturn(Labels, <<call>>)
       ELSE OpRaise(ExcOf(env.call), <<call>>)

\* the loop ended by the first message whose details cannot be had
RECURSIVE FetchUntilFailure(_, _, _)
FetchUntilFailure(messages, k, env) ==
    IF k > Len(messages) THEN [details |-> <<>>, calls |-> <<>>]
    ELSE LET d == get_message_details(messages[k].id,
                      IF messages[k].id \in env.badGet THEN "http" ELSE "ok")
             rest == FetchUntilFailure(messages, k + 1, env)
         IN IF d.raised THEN [details |-> <<>>, calls |-> d.calls]
            ELSE [details |-> <<d.value>> \o rest.details, calls |-> d.calls \o rest.calls]

\* the loop of GmailClient.search_messages over the listed messages k..
RECURSIVE FetchDetails(_, _, _)
FetchDetails(messages, k, env) ==
    IF k > Len(messages) THEN [details |-> <<>>, calls |-> <<>>]
    ELSE LET d == get_message_details(messages[k].id,
                      IF messages[k].id \in env.badGet THEN "http" ELSE "ok")
             rest == FetchDetails(messages, k + 1, env)
         IN [details |-> (IF d.raised THEN <<>> ELSE <<d.value>>) \o rest.details,
             calls |-> d.calls \o rest.calls]

\* GmailClient.search_messages
search_messages(query, max_results, cfg, env) ==
    LET listed == list_messages([query |-> query, max_results |-> max_results], cfg, env)
    IN IF listed.raised THEN listed
       ELSE LET f == FetchDetails(listed.value, 1, env)
            IN OpReturn(f.details, listed.calls \o f.calls)


(***************************************************************************)
(* GmailMCPCloudServer: the handlers.  Each gives                          *)
(*   [response, ops, calls]: the envelope it returns or the exception it   *)
(*   lets escape, the GmailClient operations it invoked (name, arguments,  *)
(*   outcome) and the provider requests those issued.                      *)
(***************************************************************************)
\* CallToolResult(content=[TextContent(type="text", text=...)], isError=...)
Envelope(text, isError) == [kind |-> "envelope", text |-> text, isError |-> isError]
\* an exception leaving a function; text is str(e)
Raised(e) == [kind |-> "exception", text |-> e, isError |-> TRUE]
KeyError(k) == <<"KeyError", k>>

OpCall(op, args, r) ==
    [op |-> op, args |-> args,
     ret |-> [raised |-> r.raised, error |-> r.error, value |-> r.value]]
Handled(response, ops, calls) == [response |-> response, ops |-> ops, calls |-> calls]

\* messages[:10] in the list and search renderings
ShowFirst == 10
\* message['snippet'][:100]
SnippetCut == 100
Min(a, b) == IF a < b THEN a ELSE b
Prefix(s, n) == SubSeq(s, 1, Min(Len(s), n))
More(n) == IF n > ShowFirst THEN <<"... and ", n - ShowFirst, " more messages">> ELSE <<>>

\* GmailConfig: DEFAULT_QUERY and DEFAULT_MAX_RESULTS, read from the environment
\* when config.py is imported
VARIABLE config
GmailConfig == config
\* the values taken when the environment does not set them
DefaultConfig == [DEFAULT_QUERY |-> "in:inbox", DEFAULT_MAX_RESULTS |-> 50]
\* the values an operator may set
Configs == [DEFAULT_QUERY : {"in:inbox", "is:unread"}, DEFAULT_MAX_RESULTS : {50, 20}]

\* GmailMCPCloudServer._handle_list_messages
_handle_list_messages(arguments, env) ==
    LET kw == [query |-> Get(arguments, "query", "in:inbox"),
               max_results |-> Get(arguments, "max_results", 50)]
              @@ (IF Has(arguments, "label_ids")
                  THEN [label_ids |-> arguments["label_ids"]] ELSE EmptyDict)
        r == list_messages(kw, GmailConfig, env)
        ops == <<OpCall("list_messages", kw, r)>>
    IN IF r.raised
       THEN Handled(Envelope(<<"Error listing messages: ">> \o r.error, TRUE), ops, r.calls)
       ELSE Handled(
              Envelope(<<"Found ", Len(r.value), " messages">>
                         \o [k \in 1..Min(Len(r.value), ShowFirst) |->
                               <<k, "Message ID: ", r.value[k].id,
                                 "Thread ID: ", Get(r.value[k], "threadId", "N/A")>>]
                         \o More(Len(r.value)),
                       FALSE),
              ops, r.calls)

\* GmailMCPCloudServer._handle_get_message
_handle_get_message(arguments, env) ==
    IF ~Has(arguments, "message_id")
    THEN Handled(Envelope(<<"Error getting message: ">> \o KeyError("message_id"), TRUE),
                 <<>>, <<>>)
    ELSE LET message_id == arguments["message_id"]
             r == get_message_details(message_id, env.call)
             ops == <<OpCall("get_message_details", [message_id |-> message_id], r)>>
             d == r.value
         IN IF r.raised
            THEN Handled(Envelope(<<"Error getting message: ">> \o r.error, TRUE),
                         ops, r.calls)
            ELSE Handled(
                   Envelope(<<"Message Details:", "ID: ", d.id, "Subject: ", d.subject,
                              "From: ", d.from, "To: ", d.to, "Date: ", d.date,
                              "Read: ", d.is_read, "Starred: ", d.is_starred,
                              "Important: ", d.is_important, "Snippet: ", d.snippet,
                              "Body:", d.body>>
                              \o (IF d.attachments # <<>>
                                  THEN <<"Attachments:">>
                                       \o [k \in 1..Len(d.attachments) |->
                                             <<"- ", d.attachments[k].filename,
                                               d.attachments[k].mime_type>>]
                                  ELSE <<>>),
                            FALSE),
                   ops, r.calls)

\* GmailMCPCloudServer._handle_search_messages
_handle_search_messages(arguments, env) ==
    IF ~Has(arguments, "query")
    THEN Handled(Envelope(<<"Error searching messages: ">> \o KeyError("query"), TRUE),
                 <<>>, <<>>)
    ELSE LET query == arguments["query"]
             max_results == Get(arguments, "max_results", 50)
             r == search_messages(query, max_results, GmailConfig, env)
             ops == <<OpCall("search_messages",
                             [query |-> query, max_results |-> max_results], r)>>
         IN IF r.raised
            THEN Handled(Envelope(<<"Error searching messages: ">> \o r.error, TRUE),
                         ops, r.calls)
            ELSE Handled(
                   Envelope(<<"Search Results for ", query, "Found ", Len(r.value), " messages">>
                              \o [k \in 1..Min(Len(r.value), ShowFirst) |->
                                    <<k, r.value[k].subject, "From: ", r.value[k].from,
                                      "Date: ", r.value[k].date, "ID: ", r.value[k].id,
                                      "Snippet: ", Prefix(r.value[k].snippet, SnippetCut)>>]
                              \o More(Len(r.value)),
                            FALSE),
                   ops, r.calls)

\* the first of the keys that the dict lacks, "" when it has them all
RECURSIVE FirstMissing(_, _)
FirstMissing(d, keys) ==
    IF keys = <<>> THEN ""
    ELSE IF ~Has(d, Head(keys)) THEN Head(keys)
    ELSE FirstMissing(d, Tail(keys))

\* _handle_send_message rejecting empty to, subject or body before the call
HandleSendStrict(arguments, env) ==
    LET missing == FirstMissing(arguments, <<"to", "subject", "body">>)
    IN IF missing # ""
       THEN Handled(Envelope(<<"Error sending message: ">> \o KeyError(missing), TRUE),
                    <<>>, <<>>)
       ELSE IF arguments["to"] = "" \/ arguments["subject"] = "" \/ arguments["body"] = ""
       THEN Handled(Envelope(<<"Error sending message: ", "ValidationError">>, TRUE),
                    <<>>, <<>>)
       ELSE LET r == send_message(arguments["to"], arguments["subject"], arguments["body"],
                                  <<>>, <<>>, <<>>, "", env)
            IN Handled(Envelope(<<"sent">>, ~r.value.success),
                       <<OpCall("send_message", arguments, r)>>, r.calls)

\* GmailMCPCloudServer._handle_send_message
_handle_send_message(arguments, env) ==
    LET missing == FirstMissing(arguments, <<"to", "subject", "body">>)
    IN IF missing # ""
       THEN Handled(Envelope(<<"Error sending message: ">> \o KeyError(missing), TRUE),
                    <<>>, <<>>)
       ELSE LET kw == [to |-> arguments["to"], subject |-> arguments["subject"],
                       body |-> arguments["body"],
                       cc |-> Get(arguments, "cc", <<>>),
                       bcc |-> Get(arguments, "bcc", <<>>),
                       attachments |-> Get(arguments, "attachments", <<>>),
                       \* arguments.get("html_body") is None when absent; None and ""
                       \* are both falsy and send_message only tests truthiness
                       html_body |-> Get(arguments, "html_body", "")]
                r == send_message(kw.to, kw.subject, kw.body, kw.cc, kw.bcc,
                                  kw.attachments, kw.html_body, env)
                ops == <<OpCall("send_message", kw, r)>>
                result == r.value
            IN IF r.raised
               THEN Handled(Envelope(<<"Error sending message: ">> \o r.error, TRUE),
                            ops, r.calls)
               ELSE
               Handled(
                 Envelope(IF result.success
                          THEN <<"Message sent successfully!", "Message ID: ", result.message_id,
                                 "Thread ID: ", result.thread_id, "To: ", result.to,
                                 "Subject: ", result.subject>>
                          ELSE <<"Failed to send message: ">> \o result.error
                               \o <<"To: ", result.to, "Subject: ", result.subject>>,
                          ~result.success),
                 ops, r.calls)

\* GmailMCPCloudServer._handle_modify_message
_handle_modify_message(arguments, env) ==
    IF ~Has(arguments, "message_id")
    THEN Handled(Envelope(<<"Error modifying message: ">> \o KeyError("message_id"), TRUE),
                 <<>>, <<>>)
    ELSE LET message_id == arguments["message_id"]
             add_label_ids == Get(arguments, "add_label_ids", <<>>)
             remove_label_ids == Get(arguments, "remove_label_ids", <<>>)
             r == modify_message(message_id, add_label_ids, remove_label_ids, env)
             ops == <<OpCall("modify_message",
                             [message_id |-> message_id, add_label_ids |-> add_label_ids,
                              remove_label_ids |-> remove_label_ids], r)>>
             result == r.value
         IN IF r.raised
            THEN Handled(Envelope(<<"Error modifying message: ">> \o r.error, TRUE),
                         ops, r.calls)
            ELSE
            Handled(
              Envelope(IF result.success
                       THEN <<"Message ", message_id, " modified successfully">>
                            \o (IF FalsySeq(add_label_ids) THEN <<>>
                                ELSE <<"Added labels: ", Join(add_label_ids)>>)
                            \o (IF FalsySeq(remove_label_ids) THEN <<>>
                                ELSE <<"Removed labels: ", Join(remove_label_ids)>>)
                       ELSE <<"Failed to modify message: ">> \o result.error,
                       ~result.success),
              ops, r.calls)

\* _handle_delete_message returning isError=False whatever the result
HandleDeleteFlagClear(arguments, env) ==
    IF ~Has(arguments, "message_id")
    THEN Handled(Envelope(<<"Error deleting message: ">> \o KeyError("message_id"), TRUE),
                 <<>>, <<>>)
    ELSE LET message_id == arguments["message_id"]
             r == delete_message(message_id, env)
         IN Handled(Envelope(IF r.value.success
                             THEN <<"Message ", message_id, " deleted successfully">>
                             ELSE <<"Failed to delete message: ">> \o r.value.error,
                             FALSE),
                    <<OpCall("delete_message", [message_id |-> message_id], r)>>, r.calls)

\* _handle_delete_message reading arguments.get("message_id", "") instead of
\* arguments["message_id"]
HandleDeleteLenient(arguments, env) ==
    LET message_id == Get(arguments, "message_id", "")
        r == delete_message(message_id, env)
    IN Handled(Envelope(IF r.value.success
                        THEN <<"Message ", message_id, " deleted successfully">>
                        ELSE <<"Failed to delete message: ">> \o r.value.error,
                        ~r.value.success),
               <<OpCall("delete_message", [message_id |-> message_id], r)>>, r.calls)

\* GmailMCPCloudServer._handle_delete_message
_handle_delete_message(arguments, env) ==
    IF ~Has(arguments, "message_id")
    THEN Handled(Envelope(<<"Error deleting message: ">> \o KeyError("message_id"), TRUE),
                 <<>>, <<>>)
    ELSE LET message_id == arguments["message_id"]
             r == delete_message(message_id, env)
             ops == <<OpCall("delete_message", [message_id |-> message_id], r)>>
             result == r.value
         IN IF r.raised
            THEN Handled(Envelope(<<"Error deleting message: ">> \o r.error, TRUE),
                         ops, r.calls)
            ELSE
            Handled(
              Envelope(IF result.success
                       THEN <<"Message ", message_id, " deleted successfully">>
                       ELSE <<"Failed to delete message: ">> \o result.error,
                       ~result.success),
              ops, r.calls)

\* GmailMCPCloudServer._handle_get_labels
_handle_get_labels(arguments, env) ==
    LET r == get_labels(env)
        ops == <<OpCall("get_labels", EmptyDict, r)>>
    IN IF r.raised
       THEN Handled(Envelope(<<"Error getting labels: ">> \o r.error, TRUE), ops, r.calls)
       ELSE Handled(
              Envelope(<<"Gmail Labels (", Len(r.value), " total):">>
                         \o [k \in 1..Len(r.value) |->
                               <<"- ", r.value[k].name, r.value[k].id, "Type: ", r.value[k].type>>
                               \o (IF Has(r.value[k], "messagesTotal")
                                   THEN <<"Messages: ", r.value[k].messagesTotal>> ELSE <<>>)
                               \o (IF Has(r.value[k], "messagesUnread")
                                   THEN <<"Unread: ", r.value[k].messagesUnread>> ELSE <<>>)],
                       FALSE),
              ops, r.calls)

\* _handle_mark_as_read adding UNREAD instead of removing it
MarkAsReadAdds(arguments, env) ==
    IF ~Has(arguments, "message_id")
    THEN Handled(Raised(KeyError("message_id")), <<>>, <<>>)
    ELSE _handle_modify_message([message_id |-> arguments["message_id"],
                                 add_label_ids |-> <<"UNREAD">>], env)

\* GmailMCPCloudServer._handle_mark_as_read
_handle_mark_as_read(arguments, env) ==
    IF ~Has(arguments, "message_id")
    THEN Handled(Raised(KeyError("message_id")), <<>>, <<>>)
    ELSE _handle_modify_message([message_id |-> arguments["message_id"],
                                 remove_label_ids |-> <<"UNREAD">>], env)

\* GmailMCPCloudServer._handle_mark_as_unread
_handle_mark_as_unread(arguments, env) ==
    IF ~Has(arguments, "message_id")
    THEN Handled(Raised(KeyError("message_id")), <<>>, <<>>)
    ELSE _handle_modify_message([message_id |-> arguments["message_id"],
                                 add_label_ids |-> <<"UNREAD">>], env)

\* GmailMCPCloudServer._handle_star_message
_handle_star_message(arguments, env) ==
    IF ~Has(arguments, "message_id")
    THEN Handled(Raised(KeyError("message_id")), <<>>, <<>>)
    ELSE _handle_modify_message([message_id |-> arguments["message_id"],
                                 add_label_ids |-> <<"STARRED">>], env)

\* GmailMCPCloudServer._handle_unstar_message
_handle_unstar_message(arguments, env) ==
    IF ~Has(arguments, "message_id")
    THEN Handled(Raised(KeyError("message_id")), <<>>, <<>>)
    ELSE _handle_modify_message([message_id |-> arguments["message_id"],
                                 remove_label_ids |-> <<"STARRED">>], env)

\* the if/elif chain with the final else falling back to the list handler
RouteDefaultsToList(name, arguments, env) ==
    CASE name = "gmail_get_labels" -> _handle_get_labels(arguments, env)
      [] name = "gmail_delete_message" -> _handle_delete_message(arguments, env)
      [] OTHER -> _handle_list_messages(arguments, env)

\* the if/elif chain of handle_call_tool (mcp_server_cloud.py:274-300)
Route(name, arguments, env) ==
    CASE name = "gmail_list_messages" -> _handle_list_messages(arguments, env)
      [] name = "gmail_get_message" -> _handle_get_message(arguments, env)
      [] name = "gmail_search_messages" -> _handle_search_messages(arguments, env)
      [] name = "gmail_send_message" -> _handle_send_message(arguments, env)
      [] name = "gmail_modify_message" -> _handle_modify_message(arguments, env)
      [] name = "gmail_delete_message" -> _handle_delete_message(arguments, env)
      [] name = "gmail_get_labels" -> _handle_get_labels(arguments, env)
      [] name = "gmail_mark_as_read" -> _handle_mark_as_read(arguments, env)
      [] name = "gmail_mark_as_unread" -> _handle_mark_as_unread(arguments, env)
      [] name = "gmail_star_message" -> _handle_star_message(arguments, env)
      [] name = "gmail_unstar_message" -> _handle_unstar_message(arguments, env)
      [] OTHER -> Handled(Envelope(<<"Unknown tool: ", name>>, TRUE), <<>>, <<>>)

\* handle_call_tool without its except clause
CatchNothing(response) == response

\* the except clause of handle_call_tool (mcp_server_cloud.py:302-307)
CatchAll(response) ==
    IF response.kind = "exception"
    THEN Envelope(<<"Error: ">> \o response.text, TRUE)
    ELSE response

(***************************************************************************)
(* setup_auth.py: the operator's set-up script, run beside the server      *)
(***************************************************************************)
SetupResult(returned, file, log) == [returned |-> returned, tokenFile |-> file, log |-> log]

\* setup_auth.py:64-91: consent flow, save, build and getProfile
SetupConsent(file, log, env, t) ==
    IF env.consent = "fail"
    THEN SetupResult(FALSE, file, log \o <<"flow", "consent_failed">>)
    ELSE IF env.write = "fail"
    THEN SetupResult(FALSE, file, log \o <<"flow", "consent", "write_failed">>)
    ELSE SetupResult(env.build = "ok",
                     TokenHolding(Cred("consent", env.grantsRefresh, t + TokenLifetime)),
                     log \o <<"flow", "consent", "write",
                              IF env.build = "ok" THEN "build" ELSE "build_failed">>)

\* setup_authentication
setup_authentication(file, secret, t, env) ==
    IF ~secret THEN SetupResult(FALSE, file, <<>>)
    ELSE IF file.state = "corrupt" THEN SetupResult(FALSE, file, <<"load_failed">>)
    ELSE IF file.state = "absent" THEN SetupConsent(file, <<>>, env, t)
    ELSE LET credentials == file.cred
         IN IF valid(credentials, t) THEN SetupResult(TRUE, file, <<"load">>)
            ELSE IF expired(credentials, t) /\ credentials.refresh_token
            THEN IF env.refresh = "fail"
                 THEN SetupResult(FALSE, file, <<"load", "refresh_failed">>)
                 ELSE IF env.write = "fail"
                 THEN SetupResult(FALSE, file, <<"load", "refresh", "write_failed">>)
                 ELSE SetupResult(TRUE,
                        TokenHolding(Cred("refreshed", TRUE, t + TokenLifetime)),
                        <<"load", "refresh", "write">>)
            ELSE SetupConsent(file, <<"load">>, env, t)

(***************************************************************************)
(* Requests                                                                *)
(***************************************************************************)
RecognizedNames ==
    {"gmail_list_messages", "gmail_get_message", "gmail_search_messages",
     "gmail_send_message", "gmail_modify_message", "gmail_delete_message",
     "gmail_get_labels", "gmail_mark_as_read", "gmail_mark_as_unread",
     "gmail_star_message", "gmail_unstar_message"}
AliasNames ==
    {"gmail_mark_as_read", "gmail_mark_as_unread", "gmail_star_message",
     "gmail_unstar_message"}
UnknownNames == {"gmail_bogus", "list_messages"}

LabelArgs == {<<>>, <<"UNREAD">>, <<"STARRED">>}
SendExtras ==
    {EmptyDict,
     [cc |-> <<"c@x", "d@x">>, html_body |-> "<p>"],
     [attachments |-> <<"f1", "f2">>, bcc |-> <<"e@x">>, html_body |-> ""]}

\* the argument maps tried with each name: every presence pattern of the keys
\* the handler reads
ArgsFor(name) ==
    CASE name = "gmail_list_messages" ->
           Merge(Opt("query", {"", "q1"}),
                 Merge(Opt("max_results", {0, 5}), Opt("label_ids", {<<"INBOX">>})))
      [] name = "gmail_get_message" -> Opt("message_id", MsgIds \cup {"zz"})
      [] name = "gmail_search_messages" ->
           Merge(Opt("query", {"", "q1"}), Opt("max_results", {5}))
      [] name = "gmail_send_message" ->
           Merge(Opt("to", {"", "a@x"}),
                 Merge(Opt("subject", {"", "s"}), Opt("body", {"", "b"})))
           \cup Merge(Req("to", {"a@x"}),
                      Merge(Req("subject", {"s"}),
                            Merge(Req("body", {"b", NonStr}), SendExtras)))
      [] name = "gmail_modify_message" ->
           Merge(Opt("message_id", {"m1", "m2"}),
                 Merge(Opt("add_label_ids", LabelArgs), Opt("remove_label_ids", LabelArgs)))
      [] name = "gmail_get_labels" -> {EmptyDict}
      [] OTHER -> Opt("message_id", {"m1", "m2"})

Requests ==
    UNION {{[name |-> n, arguments |-> a] : a \in ArgsFor(n)} :
             n \in RecognizedNames \cup UnknownNames}

\* the provider outcomes that the named operation can observe: a field the
\* operation never consults is held at one value
ProvEnvsFor ==
    [name \in RecognizedNames \cup UnknownNames |->
       {e \in ProvEnvs :
          /\ name \notin {"gmail_list_messages", "gmail_search_messages"} => e.listed = <<>>
          /\ name # "gmail_search_messages" => e.badGet = {}
          /\ name # "gmail_send_message" => e.readable = Files
          /\ name \notin RecognizedNames => e.call = "ok"
          /\ e.call # "ok" => e.listed = <<>> /\ e.badGet = {}}]

QuietProvEnv == [call |-> "ok", listed |-> <<>>, badGet |-> {}, readable |-> Files]
QuietAuthEnv ==
    [refresh |-> "ok", consent |-> "ok", grantsRefresh |-> TRUE, write |-> "ok",
     build |-> "ok"]

(***************************************************************************)
(* State                                                                   *)
(***************************************************************************)
VARIABLES
    tokenFile,      \* the token artifact
    secretPresent,  \* whether the client-secret artifact exists
    now,            \* the clock
    gmail_client,   \* GmailMCPCloudServer.gmail_client
    pc,             \* "idle", "responded" (a dispatch has returned), "setup_done"
    request,        \* the tool call being answered
    response,       \* what handle_call_tool gave back
    authRun,        \* the run of GmailClient._authenticate made by this dispatch
    opCalls,        \* the GmailClient operations invoked by this dispatch
    provCalls,      \* the provider requests issued by this dispatch
    provEnv,        \* the provider outcomes this dispatch met
    setupRun,       \* the last run of setup_authentication
    fetched,        \* a message resource as messages.get returns it
    decoded,        \* what the decoding of fetched gave
    tasks,          \* the handle_call_tool coroutines of overlapping requests
    running,        \* the coroutine the event loop is running, 0 when none
    invocation,     \* a GmailClient operation with its arguments and what it meets
    outcome         \* what that operation gave

vars == <<tokenFile, secretPresent, now, gmail_client, pc, request, response,
          authRun, opCalls, provCalls, provEnv, setupRun, fetched, decoded,
          tasks, running, invocation, outcome, config>>

NoClient == [set |-> FALSE, credentials |-> NoCred]
NoRequest == [name |-> "", arguments |-> EmptyDict]
NoResponse == [kind |-> "none", text |-> <<>>, isError |-> FALSE]
NoAuthRun ==
    [attempted |-> FALSE, file |-> TokenAbsent, secret |-> FALSE, at |-> 0,
     ok |-> FALSE, error |-> "", log |-> <<>>, after |-> TokenAbsent]
NoSetupRun ==
    [ran |-> FALSE, file |-> TokenAbsent, at |-> 0, returned |-> FALSE, log |-> <<>>]
NoDecoded == [done |-> FALSE, raised |-> FALSE, error |-> <<>>, value |-> <<>>]
NoInvocation == [op |-> "none"]
NoOutcome == [done |-> FALSE, raised |-> FALSE, error |-> <<>>, value |-> <<>>, calls |-> <<>>]
\* the most requests in progress at once
MaxTasks == 2
Tasks == 1..MaxTasks
NoTask == [pc |-> "none", request |-> NoRequest, built |-> NoClient, response |-> NoResponse]

\* GmailMCPCloudServer.__init__: no client yet, nothing dispatched
Init ==
    /\ tokenFile \in TokenFiles
    /\ secretPresent \in BOOLEAN
    /\ now = 0
    /\ gmail_client = NoClient
    /\ pc = "idle"
    /\ request = NoRequest
    /\ response = NoResponse
    /\ authRun = NoAuthRun
    /\ opCalls = <<>>
    /\ provCalls = <<>>
    /\ provEnv = QuietProvEnv
    /\ setupRun = NoSetupRun
    /\ fetched = Mailbox["m1"]
    /\ decoded = NoDecoded
    /\ tasks = [t \in Tasks |-> NoTask]
    /\ running = 0
    /\ invocation = NoInvocation
    /\ outcome = NoOutcome
    /\ config = DefaultConfig

\* the lazy construction redone whenever the credential held has expired
ClientMissingOrStale(client) == ~client.set \/ expired(client.credentials, now)

\* mcp_server_cloud.py:270: if self.gmail_client is None
ClientMissing(client) == ~client.set

\* handle_call_tool dropping the client when the dispatch ends in an error, so
\* that the next dispatch authenticates again
HandleResetOnError(name, arguments, aenv, penv) ==
    /\ pc = "idle"
    /\ \E auth \in {_authenticate(tokenFile, secretPresent, now, aenv)} :
      \E h \in {IF ClientMissing(gmail_client) /\ ~auth.ok
                THEN Handled(Raised(<<auth.error>>), <<>>, <<>>)
                ELSE Route(name, arguments, penv)} :
        /\ request' = [name |-> name, arguments |-> arguments]
        /\ authRun' = IF ClientMissing(gmail_client)
                      THEN [attempted |-> TRUE, file |-> tokenFile,
                            secret |-> secretPresent, at |-> now, ok |-> auth.ok,
                            error |-> auth.error, log |-> auth.log,
                            after |-> auth.tokenFile]
                      ELSE NoAuthRun
        /\ tokenFile' = IF ClientMissing(gmail_client) THEN auth.tokenFile ELSE tokenFile
        /\ gmail_client' = IF h.response.isError THEN NoClient
                           ELSE IF ClientMissing(gmail_client) /\ auth.ok
                           THEN [set |-> TRUE, credentials |-> auth.credentials]
                           ELSE gmail_client
        /\ response' = CatchAll(h.response)
        /\ opCalls' = h.ops
        /\ provCalls' = h.calls
        /\ provEnv' = penv
        /\ pc' = "responded"
        /\ UNCHANGED <<config, invocation, outcome, secretPresent, now, setupRun, fetched, decoded,
                   tasks, running>>

\* the dispatch that examines the name before it constructs the client
HandleRouteFirst(name, arguments, aenv, penv) ==
    /\ pc = "idle"
    /\ \E auth \in {_authenticate(tokenFile, secretPresent, now, aenv)} :
      \E h \in {IF name \in RecognizedNames /\ ClientMissing(gmail_client) /\ ~auth.ok
                THEN Handled(Raised(<<auth.error>>), <<>>, <<>>)
                ELSE Route(name, arguments, penv)} :
        /\ request' = [name |-> name, arguments |-> arguments]
        /\ authRun' = IF name \in RecognizedNames /\ ClientMissing(gmail_client)
                      THEN [attempted |-> TRUE, file |-> tokenFile,
                            secret |-> secretPresent, at |-> now, ok |-> auth.ok,
                            error |-> auth.error, log |-> auth.log,
                            after |-> auth.tokenFile]
                      ELSE NoAuthRun
        /\ tokenFile' = IF name \in RecognizedNames /\ ClientMissing(gmail_client) THEN auth.tokenFile ELSE tokenFile
        /\ gmail_client' = IF name \in RecognizedNames /\ ClientMissing(gmail_client) /\ auth.ok
                           THEN [set |-> TRUE, credentials |-> auth.credentials]
                           ELSE gmail_client
        /\ response' = CatchAll(h.response)
        /\ opCalls' = h.ops
        /\ provCalls' = h.calls
        /\ provEnv' = penv
        /\ pc' = "responded"
        /\ UNCHANGED <<config, invocation, outcome, secretPresent, now, setupRun, fetched, decoded,
                   tasks, running>>

\* the dispatch that installs the client object before its authentication
\* has succeeded
HandleInstallsUnauthenticated(name, arguments, aenv, penv) ==
    /\ pc = "idle"
    /\ \E auth \in {_authenticate(tokenFile, secretPresent, now, aenv)} :
      \E h \in {IF ClientMissing(gmail_client) /\ ~auth.ok
                THEN Handled(Raised(<<auth.error>>), <<>>, <<>>)
                ELSE Route(name, arguments, penv)} :
        /\ request' = [name |-> name, arguments |-> arguments]
        /\ authRun' = IF ClientMissing(gmail_client)
                      THEN [attempted |-> TRUE, file |-> tokenFile,
                            secret |-> secretPresent, at |-> now, ok |-> auth.ok,
                            error |-> auth.error, log |-> auth.log,
                            after |-> auth.tokenFile]
                      ELSE NoAuthRun
        /\ tokenFile' = IF ClientMissing(gmail_client) THEN auth.tokenFile ELSE tokenFile
        /\ gmail_client' = IF ClientMissing(gmail_client)
                           THEN [set |-> TRUE,
                                 credentials |-> IF auth.ok THEN auth.credentials ELSE NoCred]
                           ELSE gmail_client
        /\ response' = CatchAll(h.response)
        /\ opCalls' = h.ops
        /\ provCalls' = h.calls
        /\ provEnv' = penv
        /\ pc' = "responded"
        /\ UNCHANGED <<config, invocation, outcome, secretPresent, now, setupRun, fetched, decoded,
                   tasks, running>>

\* handle_call_tool
handle_call_tool(name, arguments, aenv, penv) ==
    /\ pc = "idle"
    /\ \E auth \in {_authenticate(tokenFile, secretPresent, now, aenv)} :
      \E h \in {IF ClientMissing(gmail_client) /\ ~auth.ok
                THEN Handled(Raised(<<auth.error>>), <<>>, <<>>)
                ELSE Route(name, arguments, penv)} :
        /\ request' = [name |-> name, arguments |-> arguments]
        /\ authRun' = IF ClientMissing(gmail_client)
                      THEN [attempted |-> TRUE, file |-> tokenFile,
                            secret |-> secretPresent, at |-> now, ok |-> auth.ok,
                            error |-> auth.error, log |-> auth.log,
                            after |-> auth.tokenFile]
                      ELSE NoAuthRun
        /\ tokenFile' = IF ClientMissing(gmail_client) THEN auth.tokenFile ELSE tokenFile
        /\ gmail_client' = IF ClientMissing(gmail_client) /\ auth.ok
                           THEN [set |-> TRUE, credentials |-> auth.credentials]
                           ELSE gmail_client
        /\ response' = CatchAll(h.response)
        /\ opCalls' = h.ops
        /\ provCalls' = h.calls
        /\ provEnv' = penv
        /\ pc' = "responded"
        /\ UNCHANGED <<config, invocation, outcome, secretPresent, now, setupRun, fetched, decoded,
                   tasks, running>>

\* the operator runs setup_auth.py
RunSetup(env) ==
    LET r == setup_authentication(tokenFile, secretPresent, now, env)
    IN /\ pc = "idle"
       /\ tokenFile' = r.tokenFile
       /\ setupRun' = [ran |-> TRUE, file |-> tokenFile, at |-> now,
                       returned |-> r.returned, log |-> r.log]
       /\ pc' = "setup_done"
       /\ UNCHANGED <<config, invocation, outcome, secretPresent, now, gmail_client, request, response, authRun,
                      opCalls, provCalls, provEnv, fetched, decoded, tasks, running>>

\* the response has been handed to the caller (or the script has exited)
Return ==
    /\ pc # "idle"
    /\ pc' = "idle"
    /\ request' = NoRequest
    /\ response' = NoResponse
    /\ authRun' = NoAuthRun
    /\ opCalls' = <<>>
    /\ provCalls' = <<>>
    /\ provEnv' = QuietProvEnv
    /\ setupRun' = NoSetupRun
    /\ UNCHANGED <<config, invocation, outcome, tokenFile, secretPresent, now, gmail_client, fetched, decoded,
                   tasks, running>>

\* time passes
Tick ==
    /\ pc = "idle"
    /\ now < MaxTime
    /\ now' = now + 1
    /\ UNCHANGED <<config, invocation, outcome, tokenFile, secretPresent, gmail_client, pc, request, response,
                   authRun, opCalls, provCalls, provEnv, setupRun, fetched, decoded,
                   tasks, running>>

\* the outcomes of the external calls of authentication that lead to different
\* runs of _authenticate in the current state, one representative of each
AuthEnvsNow ==
    IF gmail_client.set THEN {QuietAuthEnv}
    ELSE LET run(e) == _authenticate(tokenFile, secretPresent, now, e)
         IN {CHOOSE e \in AuthEnvs : run(e) = o : o \in {run(e) : e \in AuthEnvs}}

Dispatch ==
    /\ pc = "idle"
    /\ \E aenv \in AuthEnvsNow :
      \E r \in Requests :
        \E penv \in ProvEnvsFor[r.name] :
          handle_call_tool(r.name, r.arguments, aenv, penv)

Setup ==
    /\ pc = "idle"
    /\ \E env \in AuthEnvs : RunSetup(env)

Next == Dispatch \/ Setup \/ Return \/ Tick

Spec == Init /\ [][Next]_vars

(***************************************************************************)
(* The decoding of a fetched message taken on its own: every message       *)
(* resource of a bounded shape is decoded once.                            *)
(***************************************************************************)
\* the longest parts list, label list and header list drawn
MaxParts == 3
MaxLabels == 3
MaxHeaders == 3

SeqsUpTo(S, n) == UNION {[1..k -> S] : k \in 0..n}
PartMimes == {"text/plain", "text/html", "image/png"}
PartData == {NoData, b64encode("a"), b64encode("b"), Garbage}
CodecParts == {Part(m, "", d) : m \in PartMimes, d \in PartData}
CodecPayloads ==
    {Multipart(ps) : ps \in SeqsUpTo(CodecParts, MaxParts)}
      \cup {SinglePart(m, d) : m \in PartMimes, d \in PartData}
\* parts as the provider sends attachments: a filename (or "", or no such key)
\* and a body with or without size and attachmentId
FileNames == {"", "a.pdf", "b.png"}
StoredBodies == {[size |-> 7, attachmentId |-> "att1"], [attachmentId |-> "att2"]}
Stored(mime, filename, body) == [mimeType |-> mime, filename |-> filename, body |-> body]
Unnamed(mime) == [mimeType |-> mime, body |-> [size |-> 0]]
AttachParts ==
    {Stored("application/pdf", f, b) : f \in FileNames, b \in StoredBodies}
      \cup {Unnamed("image/png"),
            Part("text/plain", "n.txt", b64encode("a")),
            Part("text/plain", "", b64encode("b"))}
AttachPayloads ==
    {Multipart(ps) : ps \in SeqsUpTo(AttachParts, MaxParts)}
      \cup {[mimeType |-> "application/pdf", filename |-> "a.pdf",
             body |-> [size |-> 7, attachmentId |-> "att1"]]}
\* a multipart child holding parts of its own, as in a message with both an
\* alternative body and attachments
Nest(inner) ==
    [mimeType |-> "multipart/alternative", filename |-> "", body |-> [size |-> 0],
     parts |-> inner]
InnerParts ==
    {Part("text/plain", "", b64encode("a")), Part("text/html", "", b64encode("b")),
     Stored("application/pdf", "inner.pdf", [size |-> 7, attachmentId |-> "att1"])}
DirectRests ==
    {<<>>, <<Stored("application/pdf", "a.pdf", [size |-> 7, attachmentId |-> "att2"])>>,
     <<Part("text/html", "", b64encode("a"))>>}
NestedPayloads ==
    {Multipart(<<Nest(inner)>> \o rest) :
       inner \in SeqsUpTo(InnerParts, MaxParts) \ {<<>>}, rest \in DirectRests}
LabelNames == {"UNREAD", "STARRED", "IMPORTANT", "INBOX"}
\* a message resource without the labelIds key
Unlabelled(payload) ==
    [threadId |-> "t1", snippet |-> <<"s", "n", "i", "p">>,
     payload |-> payload @@ [headers |-> <<>>]]
\* header names as the provider sends them and in other letter case
HeaderNames == {"Subject", "subject", "To", "TO", "Date"}
CodecHeaders == {Header(n, v) : n \in HeaderNames, v \in {"x", "y"}}
CodecMessages ==
    {Message(<<"INBOX">>, <<>>, p) : p \in CodecPayloads \cup AttachPayloads \cup NestedPayloads}
      \cup {Message(<<"INBOX">>, hs, SinglePart("text/plain", b64encode("a"))) :
              hs \in SeqsUpTo(CodecHeaders, MaxHeaders)}
      \cup {Message(ls, <<>>, SinglePart("text/plain", b64encode("a"))) :
              ls \in SeqsUpTo(LabelNames, MaxLabels)}
      \cup {Unlabelled(SinglePart("text/plain", b64encode("a")))}

InitCodec ==
    /\ fetched \in CodecMessages
    /\ decoded = NoDecoded
    /\ tokenFile = TokenAbsent
    /\ secretPresent = FALSE
    /\ now = 0
    /\ gmail_client = NoClient
    /\ pc = "idle"
    /\ request = NoRequest
    /\ response = NoResponse
    /\ authRun = NoAuthRun
    /\ opCalls = <<>>
    /\ provCalls = <<>>
    /\ provEnv = QuietProvEnv
    /\ setupRun = NoSetupRun
    /\ tasks = [t \in Tasks |-> NoTask]
    /\ running = 0
    /\ invocation = NoInvocation
    /\ outcome = NoOutcome
    /\ config = DefaultConfig

\* get_message_details from the point where the message has been fetched
Decode ==
    /\ ~decoded.done
    /\ \E r \in {message_details("mx", fetched, <<>>)} :
         decoded' = [done |-> TRUE, raised |-> r.raised, error |-> r.error,
                     value |-> r.value]
    /\ UNCHANGED <<config, invocation, outcome, tokenFile, secretPresent, now, gmail_client, pc, request, response,
                   authRun, opCalls, provCalls, provEnv, setupRun, fetched,
                   tasks, running>>

NextCodec == Decode

SpecCodec == InitCodec /\ [][NextCodec]_vars

(***************************************************************************)
(* Overlapping requests: one handle_call_tool coroutine per request, all   *)
(* on one event loop.  A coroutine runs, line after line, until it returns *)
(* or reaches an await; only then can the loop run another one.            *)
(*   pc of a coroutine: "none" (no request), "start" (created, not yet     *)
(*   run), "construct" (line 270 found the client None), "assign" (the     *)
(*   GmailClient is built, line 271 has not stored it), "route" (at the    *)
(*   routing, lines 274-300), "done" (returned).                           *)
(***************************************************************************)
\* as if the construction of the client were awaited
YieldPointsWithConstruct == {"construct", "route"}

\* mcp_server_cloud.py:275-295: the await expressions of handle_call_tool
YieldPoints == {"route"}

\* the requests sent while others are in progress
ConcRequests ==
    {[name |-> "gmail_get_labels", arguments |-> EmptyDict],
     [name |-> "gmail_mark_as_read", arguments |-> EmptyDict],
     [name |-> "gmail_bogus", arguments |-> EmptyDict]}

InitConc ==
    /\ tokenFile \in TokenFiles
    /\ secretPresent \in BOOLEAN
    /\ now \in 0..MaxTime
    /\ gmail_client = NoClient
    /\ pc = "idle"
    /\ request = NoRequest
    /\ response = NoResponse
    /\ authRun = NoAuthRun
    /\ opCalls = <<>>
    /\ provCalls = <<>>
    /\ provEnv = QuietProvEnv
    /\ setupRun = NoSetupRun
    /\ fetched = Mailbox["m1"]
    /\ decoded = NoDecoded
    /\ tasks = [t \in Tasks |-> NoTask]
    /\ running = 0
    /\ invocation = NoInvocation
    /\ outcome = NoOutcome
    /\ config = DefaultConfig

\* what the loop does after a coroutine reached the place q
Yielding(q) == q \in YieldPoints \cup {"done"}
Goto(t, q, built, resp) ==
    /\ tasks' = [tasks EXCEPT ![t] = [pc |-> q, request |-> tasks[t].request,
                                      built |-> built, response |-> resp]]
    /\ running' = IF Yielding(q) THEN 0 ELSE t

\* a request arrives and the server's message loop, itself a coroutine on the
\* event loop, creates the coroutine that will handle it
Arrive(t, r) ==
    /\ running = 0
    /\ tasks[t].pc = "none"
    /\ tasks' = [tasks EXCEPT ![t] = [pc |-> "start", request |-> r,
                                      built |-> NoClient, response |-> NoResponse]]
    /\ UNCHANGED <<config, invocation, outcome, tokenFile, secretPresent, now, gmail_client, pc, request, response,
                   authRun, opCalls, provCalls, provEnv, setupRun, fetched, decoded,
                   running>>

\* the next piece of handle_call_tool in coroutine t
Step(t, aenv, penv) ==
    /\ running = t \/ (running = 0 /\ tasks[t].pc \in YieldPoints \cup {"start"})
    /\ tasks[t].pc \in {"start", "construct", "assign", "route"}
    /\ CASE tasks[t].pc = "start" ->
             \* line 270
             /\ Goto(t, IF ClientMissing(gmail_client) THEN "construct" ELSE "route",
                     NoClient, NoResponse)
             /\ UNCHANGED <<tokenFile, gmail_client>>
         [] tasks[t].pc = "construct" ->
             \* line 271, right-hand side: GmailClient(self.config)
             \E auth \in {_authenticate(tokenFile, secretPresent, now, aenv)} :
               /\ tokenFile' = auth.tokenFile
               /\ UNCHANGED gmail_client
               /\ IF auth.ok
                  THEN Goto(t, "assign", [set |-> TRUE, credentials |-> auth.credentials],
                            NoResponse)
                  ELSE Goto(t, "done", NoClient, CatchAll(Raised(<<auth.error>>)))
         [] tasks[t].pc = "assign" ->
             \* line 271, the assignment to self.gmail_client
             /\ gmail_client' = tasks[t].built
             /\ Goto(t, "route", tasks[t].built, NoResponse)
             /\ UNCHANGED tokenFile
         [] tasks[t].pc = "route" ->
             \* lines 274-307
             /\ Goto(t, "done", tasks[t].built,
                     CatchAll(Route(tasks[t].request.name, tasks[t].request.arguments,
                                    penv).response))
             /\ UNCHANGED <<tokenFile, gmail_client>>
    /\ UNCHANGED <<config, invocation, outcome, secretPresent, now, pc, request, response, authRun, opCalls,
                   provCalls, provEnv, setupRun, fetched, decoded>>

\* the response of a returned coroutine is sent
Collect(t) ==
    /\ running = 0
    /\ tasks[t].pc = "done"
    /\ tasks' = [tasks EXCEPT ![t] = NoTask]
    /\ UNCHANGED <<config, invocation, outcome, tokenFile, secretPresent, now, gmail_client, pc, request, response,
                   authRun, opCalls, provCalls, provEnv, setupRun, fetched, decoded,
                   running>>

Arrival == \E t \in Tasks : \E r \in ConcRequests : Arrive(t, r)
Run ==
    \E t \in Tasks :
      /\ tasks[t].pc \in {"start", "construct", "assign", "route"}
      /\ \E aenv \in (IF tasks[t].pc = "construct" THEN AuthEnvs ELSE {QuietAuthEnv}) :
           \E penv \in (IF tasks[t].pc = "route"
                         THEN ProvEnvsFor[tasks[t].request.name] ELSE {QuietProvEnv}) :
             Step(t, aenv, penv)
Collection == \E t \in Tasks : Collect(t)

NextConc == Arrival \/ Run \/ Collection

SpecConc == InitConc /\ [][NextConc]_vars

(***************************************************************************)
(* Single operations taken on their own: an operation is applied once to   *)
(* arguments and outcomes drawn from bounded sets.                         *)
(***************************************************************************)
\* the longest list of attachment paths drawn
MaxPaths == 3

SendFiles == {"f1", "f2", "f3"}
SendInvocations ==
    {[op |-> "send_message", to |-> "a@x", subject |-> "s", body |-> "b",
      cc |-> <<>>, bcc |-> <<>>, attachments |-> a, html_body |-> h,
      env |-> [call |-> c, listed |-> <<>>, badGet |-> {}, readable |-> r]] :
       a \in SeqsUpTo(SendFiles, MaxPaths), h \in {"", "<p>"},
       c \in Outcomes, r \in SUBSET SendFiles}

\* the dispatches of list_messages, with every presence pattern of its arguments
ListInvocations ==
    {[op |-> "gmail_list_messages", arguments |-> a, env |-> e] :
       a \in ArgsFor("gmail_list_messages"), e \in ProvEnvsFor["gmail_list_messages"]}

InitOps ==
    /\ \/ invocation \in SendInvocations /\ config = DefaultConfig
       \/ invocation \in ListInvocations /\ config \in Configs
    /\ outcome = NoOutcome
    /\ tokenFile = TokenAbsent
    /\ secretPresent = FALSE
    /\ now = 0
    /\ gmail_client = NoClient
    /\ pc = "idle"
    /\ request = NoRequest
    /\ response = NoResponse
    /\ authRun = NoAuthRun
    /\ opCalls = <<>>
    /\ provCalls = <<>>
    /\ provEnv = QuietProvEnv
    /\ setupRun = NoSetupRun
    /\ fetched = Mailbox["m1"]
    /\ decoded = NoDecoded
    /\ tasks = [t \in Tasks |-> NoTask]
    /\ running = 0

\* GmailClient.send_message is called
SendIt ==
    /\ ~outcome.done
    /\ invocation.op = "send_message"
    /\ \E r \in {send_message(invocation.to, invocation.subject, invocation.body,
                               invocation.cc, invocation.bcc, invocation.attachments,
                               invocation.html_body, invocation.env)} :
         outcome' = [done |-> TRUE, raised |-> r.raised, error |-> r.error,
                     value |-> r.value, calls |-> r.calls]
    /\ UNCHANGED <<config, invocation, tokenFile, secretPresent, now, gmail_client, pc, request,
                   response, authRun, opCalls, provCalls, provEnv, setupRun, fetched,
                   decoded, tasks, running>>

\* _handle_list_messages is called on an initialised client
ListIt ==
    /\ ~outcome.done
    /\ invocation.op = "gmail_list_messages"
    /\ \E h \in {_handle_list_messages(invocation.arguments, invocation.env)} :
         outcome' = [done |-> TRUE, raised |-> FALSE, error |-> <<>>,
                     value |-> h.response, calls |-> h.calls]
    /\ UNCHANGED <<config, invocation, tokenFile, secretPresent, now, gmail_client, pc,
                   request, response, authRun, opCalls, provCalls, provEnv, setupRun,
                   fetched, decoded, tasks, running>>

NextOps == SendIt \/ ListIt

SpecOps == InitOps /\ [][NextOps]_vars

(***************************************************************************)
(* Properties                                                              *)
(***************************************************************************)
Responded == pc = "responded"
\* construction of the client was attempted by this dispatch and failed
AuthFailed == authRun.attempted /\ ~authRun.ok
\* the required arguments of each recognized operation (the "required" lists
\* of the tool schemas)
Required(name) ==
    CASE name = "gmail_send_message" -> {"to", "subject", "body"}
      [] name = "gmail_search_messages" -> {"query"}
      [] name \in {"gmail_list_messages", "gmail_get_labels"} -> {}
      [] OTHER -> {"message_id"}
LacksRequired ==
    /\ request.name \in RecognizedNames
    /\ \E k \in Required(request.name) : ~Has(request.arguments, k)

\* C1: every dispatch, whatever the operation name, the argument map and the
\* outcomes of authentication and of the provider, returns an envelope with a
\* text body and an error flag; no exception leaves handle_call_tool.
C1_AlwaysEnvelope ==
    Responded =>
      /\ response.kind = "envelope"
      /\ response.text # <<>>
      /\ response.isError \in BOOLEAN

\* an alias handler let a KeyError escape and the dispatcher turned it into an
\* envelope
C1_Witness ==
    /\ Responded
    /\ request.name = "gmail_star_message"
    /\ ~Has(request.arguments, "message_id")
    /\ gmail_client.set
    /\ response = Envelope(<<"Error: ", "KeyError", "message_id">>, TRUE)

\* C2: a dispatch of a recognized operation whose argument map lacks a required
\* argument returns an envelope with the error flag set, invokes no GmailClient
\* operation and issues no provider request.
C2_MissingArgumentNoCall ==
    (Responded /\ LacksRequired) =>
      /\ response.kind = "envelope"
      /\ response.isError
      /\ opCalls = <<>>
      /\ provCalls = <<>>

\* send_message without subject, on an initialised client
C2_Witness ==
    /\ Responded
    /\ request.name = "gmail_send_message"
    /\ Has(request.arguments, "to") /\ Has(request.arguments, "body")
    /\ ~Has(request.arguments, "subject")
    /\ gmail_client.set
    /\ response = Envelope(<<"Error sending message: ", "KeyError", "subject">>, TRUE)
    /\ opCalls = <<>>

SendWithEmptyField ==
    /\ Responded
    /\ request.name = "gmail_send_message"
    /\ {"to", "subject", "body"} \subseteq DOMAIN request.arguments
    /\ \E k \in {"to", "subject", "body"} : request.arguments[k] = ""

\* C3 as stated: send_message with to, subject or body present but empty gives
\* an error envelope and the provider send request is never issued.
C3_EmptyFieldRejected ==
    SendWithEmptyField => (response.isError /\ provCalls = <<>>)

\* C3 amended: send_message checks only that to, subject and body are present.
\* When they are all present strings and one is empty, then unless the client
\* could not be constructed the values reach GmailClient.send_message
\* unchanged, the provider send request is issued exactly once, and the error
\* flag is set exactly when that request failed.
C3_EmptyFieldSent ==
    (SendWithEmptyField /\ ~AuthFailed
       /\ \A k \in {"to", "subject", "body"} : request.arguments[k] # NonStr) =>
      /\ Len(opCalls) = 1
      /\ opCalls[1].op = "send_message"
      /\ \A k \in {"to", "subject", "body"} : opCalls[1].args[k] = request.arguments[k]
      /\ Len(provCalls) = 1
      /\ provCalls[1].endpoint = "messages.send"
      /\ response.isError = (provEnv.call # "ok")

\* an empty subject was sent and the dispatch reported success
C3_Witness ==
    /\ SendWithEmptyField
    /\ request.arguments["subject"] = ""
    /\ Len(provCalls) = 1
    /\ provCalls[1].body.raw = b64encode([subtype |-> "alternative", to |-> "a@x",
                                          subject |-> "",
                                          parts |-> <<[type |-> "text/plain", text |-> "b"]>>])
    /\ ~response.isError

UnknownOperation(name) == Envelope(<<"Unknown tool: ", name>>, TRUE)

\* C4 as stated: a name outside the eleven recognized names gets the
\* UnknownOperation envelope in every state of the server, authentication
\* succeeding or failing.
C4_UnknownAlways ==
    (Responded /\ request.name \notin RecognizedNames) =>
      response = UnknownOperation(request.name)

\* C4 amended: a name outside the eleven recognized names always gets an
\* envelope with the error flag set and reaches no GmailClient operation; the
\* envelope is 'Unknown tool: <name>' when the client was already initialised
\* or its construction succeeded in this dispatch, and the generic
\* 'Error: <authentication error>' when the construction failed.
C4_UnknownUnlessAuthFails ==
    (Responded /\ request.name \notin RecognizedNames) =>
      /\ response.isError
      /\ opCalls = <<>> /\ provCalls = <<>>
      /\ response = IF AuthFailed THEN Envelope(<<"Error: ", authRun.error>>, TRUE)
                    ELSE UnknownOperation(request.name)

\* an unknown name answered on a client constructed by this very dispatch
C4_Witness ==
    /\ Responded
    /\ request.name = "gmail_bogus"
    /\ authRun.attempted /\ authRun.ok
    /\ response = UnknownOperation("gmail_bogus")

MutatingOps == {"send_message", "modify_message", "delete_message"}
\* the outcome of an invoked GmailClient operation: it raised, or (for the
\* mutating operations) it returned success=False
OpFailed(c) == c.ret.raised \/ (c.op \in MutatingOps /\ ~c.ret.value.success)

\* C5: whenever a dispatch of a recognized operation invoked its GmailClient
\* operation, the error flag of the envelope is set exactly when that operation
\* failed (returned success=False for send, modify, delete and the four
\* aliases; raised for list, get, search and get_labels).
C5_FlagFaithful ==
    (Responded /\ request.name \in RecognizedNames /\ opCalls # <<>>) =>
      /\ Len(opCalls) = 1
      /\ response.isError = OpFailed(opCalls[1])

\* a delete that the provider refused is rendered with the error flag set
C5_Witness ==
    /\ Responded
    /\ request.name = "gmail_delete_message"
    /\ Len(opCalls) = 1
    /\ ~opCalls[1].ret.raised
    /\ ~opCalls[1].ret.value.success
    /\ response = Envelope(<<"Failed to delete message: ", "HttpError">>, TRUE)

ConstructionFails(c) ==
    c.op = "send_message" /\ NonStr \in {c.args.to, c.args.subject, c.args.body}

\* C6: send_message, modify_message and delete_message never raise.  They
\* return success=False with an error description exactly when the message
\* could not be built or the provider request failed, success=True otherwise,
\* and in both cases echo to and subject (send) or message_id (modify, delete).
C6_MutatingNeverRaise ==
    \A k \in 1..Len(opCalls) :
      LET c == opCalls[k] IN
      c.op \in MutatingOps =>
        /\ ~c.ret.raised
        /\ c.ret.value.success = (provEnv.call = "ok" /\ ~ConstructionFails(c))
        /\ ~c.ret.value.success =>
             (Has(c.ret.value, "error") /\ c.ret.value.error # <<>>)
        /\ IF c.op = "send_message"
           THEN c.ret.value.to = c.args.to /\ c.ret.value.subject = c.args.subject
           ELSE c.ret.value.message_id = c.args.message_id

\* a send whose body could not be turned into a MIME part: failure result with
\* the recipient and the subject, no provider request
C6_Witness ==
    /\ Responded
    /\ Len(opCalls) = 1
    /\ opCalls[1].op = "send_message"
    /\ opCalls[1].args.body = NonStr
    /\ opCalls[1].ret.value =
         [success |-> FALSE, error |-> <<"AttributeError">>, to |-> "a@x", subject |-> "s"]
    /\ provCalls = <<>>

\* the modify_message arguments and the provider request body that each alias
\* stands for
AliasAsModify(name, x) ==
    CASE name = "gmail_mark_as_read" -> [message_id |-> x, remove_label_ids |-> <<"UNREAD">>]
      [] name = "gmail_mark_as_unread" -> [message_id |-> x, add_label_ids |-> <<"UNREAD">>]
      [] name = "gmail_star_message" -> [message_id |-> x, add_label_ids |-> <<"STARRED">>]
      [] OTHER -> [message_id |-> x, remove_label_ids |-> <<"STARRED">>]
AliasBody(name) ==
    CASE name = "gmail_mark_as_read" -> [removeLabelIds |-> <<"UNREAD">>]
      [] name = "gmail_mark_as_unread" -> [addLabelIds |-> <<"UNREAD">>]
      [] name = "gmail_star_message" -> [addLabelIds |-> <<"STARRED">>]
      [] OTHER -> [removeLabelIds |-> <<"STARRED">>]

\* C7: a dispatch of mark_as_read, mark_as_unread, star_message or
\* unstar_message with message id X issues exactly one provider request, the
\* messages.modify request with id X and the body of the corresponding
\* modify_message call, and returns the envelope that dispatching that
\* modify_message call gives under the same provider outcome.
C7_AliasIsModify ==
    (Responded /\ request.name \in AliasNames /\ Has(request.arguments, "message_id")
       /\ ~AuthFailed) =>
      LET x == request.arguments["message_id"]
          h == Route("gmail_modify_message", AliasAsModify(request.name, x), provEnv)
      IN /\ provCalls = <<ProvCall("messages.modify", x, AliasBody(request.name))>>
         /\ provCalls = h.calls
         /\ response = CatchAll(h.response)

\* mark_as_read of m2 accepted by the provider
C7_Witness ==
    /\ Responded
    /\ request = [name |-> "gmail_mark_as_read", arguments |-> [message_id |-> "m2"]]
    /\ provCalls = <<ProvCall("messages.modify", "m2", [removeLabelIds |-> <<"UNREAD">>])>>
    /\ response = Envelope(<<"Message ", "m2", " modified successfully",
                             "Removed labels: ", Join(<<"UNREAD">>)>>, FALSE)

\* the stored credential is absent, or expired without a refresh token
NoRefreshPossible(file, t) ==
    \/ file.state = "absent"
    \/ file.state = "ok" /\ expired(file.cred, t) /\ ~file.cred.refresh_token
\* the stored credential is expired and carries a refresh token
ExpiredRefreshable(file, t) ==
    file.state = "ok" /\ expired(file.cred, t) /\ file.cred.refresh_token
RefreshEvents == {"refresh", "refresh_failed"}
ConsentEvents == {"flow", "flow_failed", "consent", "consent_failed"}
Events(log) == {log[k] : k \in 1..Len(log)}

\* C8: when the stored credential is absent, or expired with no refresh token,
\* _authenticate enters the consent flow (it runs to the browser step whenever
\* the client-secret artifact is there) and never the refresh exchange.
C8_ConsentNeverRefresh ==
    (authRun.attempted /\ NoRefreshPossible(authRun.file, authRun.at)) =>
      /\ Events(authRun.log) \cap RefreshEvents = {}
      /\ Events(authRun.log) \cap {"flow", "flow_failed"} # {}
      /\ authRun.secret => Events(authRun.log) \cap {"consent", "consent_failed"} # {}

\* an expired stored credential without refresh token led to a completed
\* consent flow
C8_Witness ==
    /\ authRun.attempted
    /\ authRun.file.state = "ok"
    /\ expired(authRun.file.cred, authRun.at)
    /\ ~authRun.file.cred.refresh_token
    /\ authRun.log = <<"load", "flow", "consent", "write", "build">>

\* C9: when the stored credential is expired and carries a refresh token,
\* _authenticate attempts the refresh exchange first; when the exchange
\* succeeds no consent flow is run, and the service is built and the client
\* returned only after the renewed credential has been written to the token
\* artifact.  setup_authentication likewise writes the refreshed credential
\* before it returns success.
C9_RefreshFirstThenPersist ==
    /\ (authRun.attempted /\ ExpiredRefreshable(authRun.file, authRun.at)) =>
         /\ Len(authRun.log) >= 2
         /\ authRun.log[1] = "load"
         /\ authRun.log[2] \in RefreshEvents
         /\ authRun.log[2] = "refresh" =>
              /\ Events(authRun.log) \cap ConsentEvents = {}
              /\ authRun.log[3] \in {"write", "write_failed"}
              /\ (authRun.ok \/ Events(authRun.log) \cap {"build", "build_failed"} # {}) =>
                   /\ authRun.log[3] = "write"
                   /\ authRun.after.state = "ok"
                   /\ authRun.after.cred.token = "refreshed"
                   /\ ~expired(authRun.after.cred, authRun.at)
              /\ authRun.ok =>
                   /\ gmail_client.set
                   /\ gmail_client.credentials = authRun.after.cred
                   /\ tokenFile = authRun.after
    /\ (setupRun.ran /\ "refresh" \in Events(setupRun.log)) =>
         /\ ExpiredRefreshable(setupRun.file, setupRun.at)
         /\ Events(setupRun.log) \cap ConsentEvents = {}
         /\ setupRun.returned =>
              /\ setupRun.log = <<"load", "refresh", "write">>
              /\ tokenFile.state = "ok" /\ tokenFile.cred.token = "refreshed"

\* a successful refresh, persisted, then the service built
C9_Witness ==
    /\ authRun.attempted /\ authRun.ok
    /\ ExpiredRefreshable(authRun.file, authRun.at)
    /\ authRun.log = <<"load", "refresh", "write", "build">>
    /\ tokenFile = TokenHolding(gmail_client.credentials)
    /\ tokenFile # authRun.file

\* C10 as stated: when the refresh exchange fails, the consent flow is run in
\* the same authentication attempt.
C10_RefreshFailureFallsBack ==
    (authRun.attempted /\ "refresh_failed" \in Events(authRun.log)) =>
      Events(authRun.log) \cap ConsentEvents # {}

\* C10 amended: when the refresh exchange fails, authentication fails
\* outright with the refresh error: no consent flow is run in that attempt,
\* the token artifact is left as it was, no service is built, the client stays
\* unset and the dispatch returns the generic error envelope without invoking
\* any operation; setup_authentication likewise returns failure without
\* running the consent flow.
C10_RefreshFailureIsFatal ==
    /\ (authRun.attempted /\ "refresh_failed" \in Events(authRun.log)) =>
         /\ authRun.log = <<"load", "refresh_failed">>
         /\ ~authRun.ok
         /\ authRun.after = authRun.file
         /\ tokenFile = authRun.file
         /\ ~gmail_client.set
         /\ response = Envelope(<<"Error: ", "RefreshError">>, TRUE)
         /\ opCalls = <<>> /\ provCalls = <<>>
    /\ (setupRun.ran /\ "refresh_failed" \in Events(setupRun.log)) =>
         /\ setupRun.log = <<"load", "refresh_failed">>
         /\ ~setupRun.returned
         /\ tokenFile = setupRun.file

\* the refresh was refused although the client-secret artifact needed for a
\* consent flow was there
C10_Witness ==
    /\ Responded
    /\ authRun.attempted
    /\ authRun.secret
    /\ authRun.log = <<"load", "refresh_failed">>
    /\ response = Envelope(<<"Error: ", "RefreshError">>, TRUE)

\* the stored credential is valid: it has a token and has not expired
StoredValid(file, t) == file.state = "ok" /\ valid(file.cred, t)

\* C11: when the token artifact holds a valid, non-expired credential,
\* _authenticate uses it as it is: no refresh exchange, no consent flow, no
\* write of the token artifact; running _authenticate again in that state,
\* whatever the outcomes of the external calls, gives the same credential and
\* the same artifact.  setup_authentication returns success there without
\* touching the artifact.
C11_ValidReturnedAsIs ==
    /\ (authRun.attempted /\ StoredValid(authRun.file, authRun.at)) =>
         /\ authRun.log \in {<<"load", "build">>, <<"load", "build_failed">>}
         /\ authRun.after = authRun.file
         /\ tokenFile = authRun.file
         /\ authRun.ok => (gmail_client.set /\ gmail_client.credentials = authRun.file.cred)
         /\ \A e \in AuthEnvs :
              LET again == _authenticate(tokenFile, authRun.secret, authRun.at, e)
              IN /\ again.credentials = authRun.file.cred
                 /\ again.tokenFile = authRun.file
                 /\ Events(again.log) \cap (RefreshEvents \cup ConsentEvents) = {}
    /\ (setupRun.ran /\ secretPresent /\ StoredValid(setupRun.file, setupRun.at)) =>
         /\ setupRun.returned
         /\ setupRun.log = <<"load">>
         /\ tokenFile = setupRun.file

\* a stored credential with a future expiry and a refresh token was loaded
\* and the service built from it
C11_Witness ==
    /\ authRun.attempted /\ authRun.ok
    /\ authRun.file.state = "ok"
    /\ authRun.file.cred.expiry > authRun.at
    /\ authRun.file.cred.refresh_token
    /\ authRun.log = <<"load", "build">>
    /\ gmail_client.credentials = authRun.file.cred

\* no stored credential can be used: the token artifact is absent, or it holds
\* a credential that is not valid and cannot be refreshed
NoUsableStored(file, t) ==
    \/ file.state = "absent"
    \/ file.state = "ok" /\ ~valid(file.cred, t) /\ ~file.cred.refresh_token

\* C14: when no usable credential is stored and the client-secret artifact is
\* absent, _authenticate fails with FileNotFoundError: no refresh and no
\* consent has produced a credential, the token artifact is not written, no
\* service is built, the client is not installed, and the dispatch returns
\* the error envelope.  setup_authentication returns failure without any step.
C14_MissingSecretIsFatal ==
    /\ (authRun.attempted /\ ~authRun.secret /\ NoUsableStored(authRun.file, authRun.at)) =>
         /\ ~authRun.ok
         /\ authRun.error = "FileNotFoundError"
         /\ Events(authRun.log) \subseteq {"load", "flow_failed"}
         /\ authRun.after = authRun.file
         /\ tokenFile = authRun.file
         /\ ~gmail_client.set
         /\ provCalls = <<>>
         /\ response = Envelope(<<"Error: ", "FileNotFoundError">>, TRUE)
    /\ (setupRun.ran /\ ~secretPresent) =>
         /\ ~setupRun.returned
         /\ setupRun.log = <<>>
         /\ tokenFile = setupRun.file

\* a dispatch found an expired credential without refresh token and no
\* client-secret artifact
C14_Witness ==
    /\ Responded
    /\ authRun.attempted /\ ~authRun.secret
    /\ authRun.file.state = "ok"
    /\ expired(authRun.file.cred, authRun.at)
    /\ ~authRun.file.cred.refresh_token
    /\ authRun.log = <<"load", "flow_failed">>
    /\ response.isError

\* C15: when the write of the token artifact fails after a refresh exchange
\* or a consent flow produced a credential, _authenticate fails with that
\* error: the service is not built, the client is not installed, the artifact
\* keeps its old content, and the dispatch returns the error envelope.
C15_UnwritableTokenIsFatal ==
    (authRun.attempted /\ Events(authRun.log) \cap {"refresh", "consent"} # {}
       /\ "write" \notin Events(authRun.log)) =>
      /\ "write_failed" \in Events(authRun.log)
      /\ ~authRun.ok
      /\ authRun.error = "PermissionError"
      /\ Events(authRun.log) \cap {"build", "build_failed"} = {}
      /\ ~gmail_client.set
      /\ tokenFile = authRun.file
      /\ provCalls = <<>>
      /\ response = Envelope(<<"Error: ", "PermissionError">>, TRUE)

\* a refresh exchange succeeded and the write after it failed
C15_Witness ==
    /\ Responded
    /\ authRun.attempted
    /\ authRun.log = <<"load", "refresh", "write_failed">>
    /\ ~gmail_client.set
    /\ response.isError

\* C12 as stated: the credential is re-validated by the expiry check on every
\* call, so a dispatch that issues provider calls when the credential obtained
\* at construction has expired has run the authentication steps first.
C12_RevalidatedEveryCall ==
    (Responded /\ provCalls # <<>> /\ expired(gmail_client.credentials, now)) =>
      authRun.attempted

\* C12 as amended: the authentication steps (expiry check, refresh exchange,
\* consent flow, write of the token artifact) run in a dispatch exactly when
\* that dispatch finds the client unset; a dispatch that finds the client set
\* runs none of them, leaves the token artifact alone and keeps the client,
\* whatever the expiry of the credential.
C12_AuthOnlyWhenClientUnset ==
    [][(pc = "idle" /\ pc' = "responded") =>
         /\ authRun'.attempted <=> ~gmail_client.set
         /\ gmail_client.set =>
              /\ tokenFile' = tokenFile
              /\ gmail_client'.set]_vars

\* a dispatch served provider calls with the client built earlier, after the
\* credential obtained at construction had expired
C12_Witness ==
    /\ Responded
    /\ gmail_client.set
    /\ expired(gmail_client.credentials, now)
    /\ ~authRun.attempted
    /\ provCalls # <<>>
    /\ ~response.isError

\* the provider refused the request of the operation dispatched
OperationRefused == provCalls # <<>> /\ provEnv.call # "ok"
\* the provider refused a per-message fetch of a search
FetchRefused ==
    /\ request.name = "gmail_search_messages"
    /\ \E k \in 1..Len(provCalls) :
         provCalls[k].endpoint = "messages.get" /\ provCalls[k].id \in provEnv.badGet
\* the dispatch answered was served by a client built by an earlier dispatch
SteadyState == Responded /\ gmail_client.set /\ ~authRun.attempted

\* C16 as stated: in steady state every dispatch in which the provider refused
\* a request returns an error envelope.
C16_AnyRefusalIsError ==
    (SteadyState /\ (OperationRefused \/ FetchRefused)) => response.isError

\* C16 as amended: in steady state a dispatch whose operation request the
\* provider refused returns an error envelope (a refused per-message fetch of
\* a search only drops that message); whichever request was refused, the
\* dispatch runs no authentication step, leaves the token artifact alone and
\* keeps the client, and no later step unsets the client or runs a refresh
\* exchange or a consent flow while the client is set.
C16_RefusalIsTerminal ==
    [][/\ (pc = "idle" /\ gmail_client.set /\ SteadyState'
             /\ (OperationRefused' \/ FetchRefused')) =>
            /\ OperationRefused' => response'.isError
            /\ Events(authRun'.log) = {}
            /\ tokenFile' = tokenFile
            /\ gmail_client' = gmail_client
       /\ gmail_client.set =>
            /\ gmail_client' = gmail_client
            /\ Events(authRun'.log) \cap (RefreshEvents \cup ConsentEvents) = {}]_vars

\* in steady state the provider refused a list request with an HTTP error
C16_Witness ==
    /\ SteadyState
    /\ request.name = "gmail_list_messages"
    /\ provEnv.call = "http"
    /\ Len(provCalls) = 1
    /\ response.isError

\* the labels of a sequence, as a set
LabelSet(ls) == {ls[k] : k \in 1..Len(ls)}

\* C20: for every label list of a fetched message the details record returns
\* that list as label_ids, and is_read holds exactly when UNREAD is not in it,
\* is_starred exactly when STARRED is in it, is_important exactly when
\* IMPORTANT is in it (a message without labelIds counts as having none).
C20_FlagsFollowLabels ==
    (decoded.done /\ ~decoded.raised) =>
      LET d == decoded.value
          given == IF "labelIds" \in DOMAIN fetched THEN fetched.labelIds ELSE <<>>
      IN /\ d.label_ids = given
         /\ d.is_read <=> "UNREAD" \notin LabelSet(d.label_ids)
         /\ d.is_starred <=> "STARRED" \in LabelSet(d.label_ids)
         /\ d.is_important <=> "IMPORTANT" \in LabelSet(d.label_ids)

\* an unread, starred message was decoded
C20_Witness ==
    /\ decoded.done /\ ~decoded.raised
    /\ decoded.value.label_ids = <<"STARRED", "INBOX", "UNREAD">>
    /\ ~decoded.value.is_read
    /\ decoded.value.is_starred
    /\ ~decoded.value.is_important

\* the parts of the fetched payload (none for a single-part payload), the data
\* of part k, and the positions of the parts of a media type that carry data
FetchedParts == IF "parts" \in DOMAIN fetched.payload THEN fetched.payload.parts ELSE <<>>
IsMultipart == "parts" \in DOMAIN fetched.payload
DataOf(k) ==
    IF "data" \in DOMAIN FetchedParts[k].body THEN FetchedParts[k].body.data ELSE NoData
Carrying(mime) ==
    {k \in 1..Len(FetchedParts) : FetchedParts[k].mimeType = mime /\ DataOf(k) # NoData}
DecodableAt(mime) == {k \in Carrying(mime) : Decodable(DataOf(k))}
First(K) == CHOOSE k \in K : \A j \in K : k <= j

\* C17 as stated: whenever a multipart payload has a text/plain part and a
\* text/html part with decodable content, the body is the content of the
\* first text/plain part with decodable content.
C17_PlainAlwaysWins ==
    (decoded.done /\ IsMultipart /\ DecodableAt("text/plain") # {}
       /\ DecodableAt("text/html") # {}) =>
      /\ ~decoded.raised
      /\ decoded.value.body = b64decode(DataOf(First(DecodableAt("text/plain"))))

\* C17 as amended: whenever a multipart payload has a text/plain part carrying
\* content, let p be the first such part.  If the content of p is decodable,
\* and so is the content of the first content-carrying text/html part when
\* that one precedes p, the body is the content of p, whatever the number and
\* the positions of the HTML parts; otherwise the extraction raises.
C17_PlainWinsUnlessUndecodable ==
    (decoded.done /\ IsMultipart /\ Carrying("text/plain") # {}) =>
      LET p == First(Carrying("text/plain"))
          htmlBefore == {k \in Carrying("text/html") : k < p}
          clean == /\ Decodable(DataOf(p))
                   /\ htmlBefore # {} => Decodable(DataOf(First(htmlBefore)))
      IN IF clean
         THEN ~decoded.raised /\ decoded.value.body = b64decode(DataOf(p))
         ELSE decoded.raised

\* the plain part sits between two HTML parts with other content
C17_Witness ==
    /\ decoded.done /\ ~decoded.raised
    /\ Len(FetchedParts) = 3
    /\ FetchedParts[1] = Part("text/html", "", b64encode("b"))
    /\ FetchedParts[2] = Part("text/plain", "", b64encode("a"))
    /\ FetchedParts[3].mimeType = "text/html"
    /\ decoded.value.body = "a"

\* C18 as stated: for a multipart payload with no text/plain part carrying
\* content the body is the content of the first text/html part that has
\* content; for a single-part payload not of type text/plain the body is empty.
C18_HtmlFallbackAlways ==
    /\ (decoded.done /\ IsMultipart /\ Carrying("text/plain") = {}
          /\ Carrying("text/html") # {}) =>
         /\ ~decoded.raised
         /\ Decodable(DataOf(First(Carrying("text/html"))))
         /\ decoded.value.body = b64decode(DataOf(First(Carrying("text/html"))))
    /\ (decoded.done /\ ~IsMultipart /\ fetched.payload.mimeType # "text/plain") =>
         ~decoded.raised /\ decoded.value.body = ""

\* C18 as amended: for a multipart payload with no text/plain part carrying
\* content, the body is the content of the first text/html part that carries
\* content when that content is decodable, and the extraction raises when it
\* is not; without such a part the body is empty.  For a single-part payload
\* the body is non-empty only when the media type is exactly text/plain: it is
\* then the content when decodable, and the extraction raises when the content
\* is not decodable; any other single-part payload, HTML included, gives the
\* empty body.
C18_HtmlFallbackUnlessUndecodable ==
    /\ (decoded.done /\ IsMultipart /\ Carrying("text/plain") = {}) =>
         IF Carrying("text/html") = {}
         THEN ~decoded.raised /\ decoded.value.body = ""
         ELSE LET h == First(Carrying("text/html"))
              IN IF Decodable(DataOf(h))
                 THEN ~decoded.raised /\ decoded.value.body = b64decode(DataOf(h))
                 ELSE decoded.raised
    /\ (decoded.done /\ ~IsMultipart) =>
         LET data == IF "data" \in DOMAIN fetched.payload.body
                     THEN fetched.payload.body.data ELSE NoData
         IN IF fetched.payload.mimeType = "text/plain" /\ data # NoData
            THEN IF Decodable(data)
                 THEN ~decoded.raised /\ decoded.value.body = b64decode(data)
                 ELSE decoded.raised
            ELSE ~decoded.raised /\ decoded.value.body = ""

\* a single-part HTML message with content was decoded to the empty body
C18_Witness ==
    /\ decoded.done /\ ~decoded.raised
    /\ fetched.payload = SinglePart("text/html", b64encode("a")) @@ [headers |-> <<>>]
    /\ decoded.value.body = ""

\* the message whose body part (its only text/plain part) is not decodable
Undecodable == "m3"
\* the ids of the detail records a search returned, in order
ReturnedIds(c) == [k \in 1..Len(c.ret.value) |-> c.ret.value[k].id]
\* a get of the undecodable message that the provider served
GotUndecodable ==
    /\ Responded /\ request.name = "gmail_get_message" /\ opCalls # <<>>
    /\ opCalls[1].args.message_id = Undecodable
    /\ provEnv.call = "ok"
\* a search in which the undecodable message was fetched
SearchedUndecodable ==
    /\ Responded /\ request.name = "gmail_search_messages"
    /\ \E k \in 1..Len(provCalls) :
         provCalls[k] = ProvCall("messages.get", Undecodable, [format |-> "full"])

\* C19 as stated: when the body part of a message cannot be decoded,
\* get_message_details returns its record with an empty body; the get
\* succeeds and a search keeps the message.
C19_UndecodableGivesEmptyBody ==
    /\ GotUndecodable =>
         /\ ~opCalls[1].ret.raised
         /\ opCalls[1].ret.value.body = ""
         /\ ~response.isError
    /\ SearchedUndecodable =>
         /\ ~opCalls[1].ret.raised
         /\ InSeq(Undecodable, ReturnedIds(opCalls[1]))

\* C19 as amended: when the body part of a message cannot be decoded,
\* get_message_details raises the decoding error: a get of that message ends
\* in the error envelope 'Error getting message: ...', and a search drops the
\* message from its results while still returning, without the error flag,
\* the records of the other messages it fetched.
C19_UndecodableRaises ==
    /\ GotUndecodable =>
         /\ opCalls[1].ret.raised
         /\ opCalls[1].ret.error = <<"DecodeError">>
         /\ provCalls = <<ProvCall("messages.get", Undecodable, [format |-> "full"])>>
         /\ response = Envelope(<<"Error getting message: ", "DecodeError">>, TRUE)
    /\ SearchedUndecodable =>
         /\ ~opCalls[1].ret.raised
         /\ ~response.isError
         /\ ~InSeq(Undecodable, ReturnedIds(opCalls[1]))
         /\ \A i \in MsgIds \ {Undecodable} :
              (InSeq(i, provEnv.listed) /\ i \notin provEnv.badGet)
                => InSeq(i, ReturnedIds(opCalls[1]))

\* a search listed the undecodable message first and returned only the other
C19_Witness ==
    /\ SearchedUndecodable
    /\ provEnv.listed = <<"m3", "m1">>
    /\ Len(provCalls) = 3
    /\ ReturnedIds(opCalls[1]) = <<"m1">>
    /\ ~response.isError

\* the coroutines that found the client unset and have not yet stored one
Constructing == {t \in Tasks : tasks[t].pc \in {"construct", "assign"}}

\* C13: whatever the interleaving of overlapping requests, at most one
\* coroutine at a time is between finding the client unset and storing the
\* client it built, and while one is there no other coroutine takes a step
\* and nobody else changes the client or the token artifact: the check, the
\* construction (with its refresh exchange or consent flow) and the
\* assignment of one dispatch happen with no other dispatch in between.
C13_SingleFlight ==
    [][/\ Cardinality(Constructing') <= 1
       /\ \A t \in Constructing :
            /\ running = t
            /\ \A u \in Tasks \ {t} : tasks'[u] = tasks[u]
            /\ tasks'[t].pc = "route" => gmail_client' = tasks[t].built
            /\ tasks[t].pc = "construct" => ~gmail_client.set]_vars

\* the coroutine of one request has built a client and is about to store it
\* while the coroutine of another request, created earlier, waits to be run
C13_Witness ==
    /\ \E t \in Tasks : tasks[t].pc = "start"
    /\ \E u \in Tasks : tasks[u].pc = "assign" /\ running = u /\ tasks[u].built.set

\* the outbound message of a send: what the raw field of the request encodes
Outbound == b64decode(outcome.calls[1].body.raw)
\* the attachment paths of the invocation that can be read, in input order
ReadablePaths ==
    SelectSeq(invocation.attachments, LAMBDA f : f \in invocation.env.readable)

\* C21: send_message issues the provider send call exactly once, whichever
\* attachment files cannot be read, and the message it carries has the parts
\* in this order: the plain-text part, the HTML part exactly when html_body is
\* non-empty, then one attachment part for every readable path, in input
\* order; unreadable paths are left out and the send succeeds whenever the
\* provider call does.
C21_PartsInOrder ==
    (outcome.done /\ invocation.op = "send_message") =>
      LET withHtml == invocation.html_body # ""
          first == IF withHtml THEN 2 ELSE 1
          parts == Outbound.parts
      IN /\ ~outcome.raised
         /\ Len(outcome.calls) = 1
         /\ outcome.calls[1].endpoint = "messages.send"
         /\ outcome.value.success <=> invocation.env.call = "ok"
         /\ Len(parts) = first + Len(ReadablePaths)
         /\ parts[1] = [type |-> "text/plain", text |-> invocation.body]
         /\ withHtml => parts[2] = [type |-> "text/html", text |-> invocation.html_body]
         /\ \A k \in 1..Len(ReadablePaths) :
              /\ parts[first + k].type = "application/octet-stream"
              /\ parts[first + k].filename = ReadablePaths[k]

\* three paths, the second unreadable: the message went out with the plain
\* part, the HTML part and the other two attachments
C21_Witness ==
    /\ outcome.done
    /\ invocation.op = "send_message"
    /\ invocation.attachments = <<"f1", "f2", "f3">>
    /\ invocation.env.readable = {"f1", "f3"}
    /\ invocation.html_body = "<p>"
    /\ outcome.value.success
    /\ Len(Outbound.parts) = 4
    /\ Outbound.parts[4].filename = "f3"

\* a dispatch of search_messages that invoked the operation
Searched == Responded /\ request.name = "gmail_search_messages" /\ opCalls # <<>>
\* the listed message can be fetched and decoded
Fetchable(i) == i \notin provEnv.badGet /\ i # Undecodable

\* C22: when the list call of a search succeeds, search_messages returns the
\* detail records of exactly the listed ids whose fetch and decoding
\* succeeded, in list order, each listed id having been fetched; the other
\* ids are left out and the search does not fail.  When the list call fails
\* the search raises after that one call and the dispatch is an error.
C22_SearchSkipsFailures ==
    Searched =>
      IF provEnv.call = "ok"
      THEN /\ ~opCalls[1].ret.raised
           /\ ~response.isError
           /\ ReturnedIds(opCalls[1]) = SelectSeq(provEnv.listed, Fetchable)
           /\ \A k \in 1..Len(opCalls[1].ret.value) :
                opCalls[1].ret.value[k].snippet = Mailbox[opCalls[1].ret.value[k].id].snippet
           /\ [k \in 1..Len(provEnv.listed) |-> provCalls[k + 1].id] = provEnv.listed
      ELSE /\ opCalls[1].ret.raised
           /\ Len(provCalls) = 1
           /\ provCalls[1].endpoint = "messages.list"
           /\ response.isError

\* the fetch of the first of two listed messages was refused: the search
\* returned the second alone
C22_Witness ==
    /\ Searched
    /\ provEnv.listed = <<"m1", "m2">>
    /\ provEnv.badGet = {"m1"}
    /\ ReturnedIds(opCalls[1]) = <<"m2">>
    /\ Len(provCalls) = 3
    /\ ~response.isError

\* the provider requests of the dispatch sent to an endpoint
CallsTo(endpoint) == {k \in 1..Len(provCalls) : provCalls[k].endpoint = endpoint}

C24_ConfiguredDefaultsUsed ==
    (outcome.done /\ invocation.op = "gmail_list_messages") =>
      /\ Len(outcome.calls) = 1
      /\ ~Has(invocation.arguments, "query") =>
           outcome.calls[1].body.q = config.DEFAULT_QUERY
      /\ ~Has(invocation.arguments, "max_results") =>
           outcome.calls[1].body.maxResults = config.DEFAULT_MAX_RESULTS

\* a dispatch of modify_message naming a message and no label, each label
\* argument being absent or the empty list
ModifiedNothing ==
    /\ Responded /\ request.name = "gmail_modify_message" /\ ~AuthFailed
    /\ Has(request.arguments, "message_id")
    /\ Get(request.arguments, "add_label_ids", <<>>) = <<>>
    /\ Get(request.arguments, "remove_label_ids", <<>>) = <<>>

\* C25: a modify with add_label_ids and remove_label_ids both empty or absent
\* is not refused by the code: exactly one modify request is issued for the
\* message, with a body that names no label to add and none to remove, and
\* whenever the provider accepts it the result is success=True echoing the
\* message id and the envelope carries no error flag and no label line.
C25_EmptyModifyIsNoOp ==
    ModifiedNothing =>
      /\ Len(provCalls) = 1
      /\ provCalls[1].endpoint = "messages.modify"
      /\ provCalls[1].id = request.arguments["message_id"]
      /\ DOMAIN provCalls[1].body = {}
      /\ Len(opCalls) = 1 /\ ~opCalls[1].ret.raised
      /\ opCalls[1].ret.value.message_id = request.arguments["message_id"]
      /\ opCalls[1].ret.value.success <=> provEnv.call = "ok"
      /\ provEnv.call = "ok" =>
           response = Envelope(<<"Message ", request.arguments["message_id"],
                                 " modified successfully">>, FALSE)

\* a modify of m1 with an empty add list and no remove list succeeded
C25_Witness ==
    /\ ModifiedNothing
    /\ request.arguments = [message_id |-> "m1", add_label_ids |-> <<>>]
    /\ provEnv.call = "ok"
    /\ opCalls[1].ret.value.success
    /\ ~response.isError

\* the headers of the fetched message, and the positions of those named n
FetchedHeaders == fetched.payload.headers
Named(n) == {k \in 1..Len(FetchedHeaders) : FetchedHeaders[k].name = n}
Last(K) == CHOOSE k \in K : \A j \in K : j <= k
\* what a field of the record must hold: the value of the last header with
\* exactly the name n, the default when there is none
Reported(n, default) ==
    IF Named(n) = {} THEN default ELSE FetchedHeaders[Last(Named(n))].value

\* C26: each header field of the details record holds the value of the last
\* header of the payload whose name is, letter for letter, Subject, From, To,
\* Cc, Bcc, Date or Message-ID, and its default when no header has exactly
\* that name (a name in another letter case does not count).
C26_HeadersLastWinsCaseSensitive ==
    (decoded.done /\ ~decoded.raised) =>
      LET d == decoded.value
      IN /\ d.subject = Reported("Subject", "No Subject")
         /\ d.from = Reported("From", "Unknown Sender")
         /\ d.to = Reported("To", "Unknown Recipient")
         /\ d.cc = Reported("Cc", "")
         /\ d.bcc = Reported("Bcc", "")
         /\ d.date = Reported("Date", "")
         /\ d.message_id = Reported("Message-ID", "")

\* To occurs twice and the subject is spelt in lower case
C26_Witness ==
    /\ decoded.done /\ ~decoded.raised
    /\ FetchedHeaders = <<Header("To", "x"), Header("subject", "x"), Header("To", "y")>>
    /\ decoded.value.to = "y"
    /\ decoded.value.subject = "No Subject"

\* the direct parts of the fetched payload that carry a non-empty filename
IsNamed(part) == "filename" \in DOMAIN part /\ part.filename # ""
NamedParts == SelectSeq(FetchedParts, IsNamed)
\* the record the claim describes for one named part
RecordOf(part) ==
    [filename |-> part.filename, mime_type |-> part.mimeType,
     size |-> IF "size" \in DOMAIN part.body THEN part.body.size ELSE 0,
     attachment_id |->
         IF "attachmentId" \in DOMAIN part.body THEN part.body.attachmentId ELSE ""]

\* C27: the attachments of the details record are, in part order, exactly one
\* {filename, mime_type, size, attachment_id} record for every direct part
\* with a non-empty filename and none for the other parts; a payload without
\* parts gives the empty sequence.
C27_OneRecordPerNamedPart ==
    (decoded.done /\ ~decoded.raised) =>
      LET a == decoded.value.attachments
      IN /\ Len(a) = Len(NamedParts)
         /\ \A k \in 1..Len(a) : a[k] = RecordOf(NamedParts[k])
         /\ ~IsMultipart => a = <<>>

\* two named parts around a part without a filename, reported in part order
C27_Witness ==
    /\ decoded.done /\ ~decoded.raised
    /\ Len(FetchedParts) = 3
    /\ IsNamed(FetchedParts[1]) /\ ~IsNamed(FetchedParts[2]) /\ IsNamed(FetchedParts[3])
    /\ FetchedParts[1].filename # FetchedParts[3].filename
    /\ Len(decoded.value.attachments) = 2
    /\ decoded.value.attachments[1].filename = FetchedParts[1].filename
    /\ decoded.value.attachments[2].filename = FetchedParts[3].filename

\* the direct parts that hold parts of their own, and what sits inside them
NestedAt == {k \in 1..Len(FetchedParts) : "parts" \in DOMAIN FetchedParts[k]}
InnerOf(k) == FetchedParts[k].parts
NestedContent ==
    \E k \in NestedAt : \E j \in 1..Len(InnerOf(k)) :
        /\ InnerOf(k)[j].mimeType \in {"text/plain", "text/html"}
        /\ "data" \in DOMAIN InnerOf(k)[j].body
NamesIn(parts) == {parts[j].filename : j \in {i \in 1..Len(parts) : IsNamed(parts[i])}}
NestedNames == UNION {NamesIn(InnerOf(k)) : k \in NestedAt}
DirectNames == NamesIn(FetchedParts)
ReportedNames ==
    {decoded.value.attachments[k].filename : k \in 1..Len(decoded.value.attachments)}

\* C30: only the direct parts of the payload are inspected: when no direct
\* part is a text/plain or text/html part with content the body is empty,
\* whatever text sits inside a nested multipart child, and every reported
\* attachment is a direct part, so a file named only inside a nested child
\* is not reported.
C30_NoDescentIntoNestedParts ==
    (decoded.done /\ ~decoded.raised /\ NestedAt # {}) =>
      /\ (Carrying("text/plain") \cup Carrying("text/html") = {})
            => decoded.value.body = ""
      /\ ReportedNames \subseteq DirectNames
      /\ Len(decoded.value.attachments) = Cardinality({k \in 1..Len(FetchedParts) : IsNamed(FetchedParts[k])})

\* text and a named file sit inside the nested child only
C30_Witness ==
    /\ decoded.done /\ ~decoded.raised
    /\ Len(FetchedParts) = 1 /\ NestedAt = {1}
    /\ NestedContent
    /\ "inner.pdf" \in NestedNames
    /\ decoded.value.body = ""
    /\ decoded.value.attachments = <<>>

\* C28: a dispatch that starts with the client unset attempts its construction
\* whatever the name and the arguments of the request, unknown names and
\* requests without their required arguments included, and the construction
\* takes its effect on the token artifact; when the construction fails the
\* response is the generic 'Error: <authentication error>' envelope with the
\* error flag set, no handler has run (no GmailClient operation, no provider
\* call) and the client is still unset.
C28_AuthenticationPrecedesRouting ==
    [][(pc = "idle" /\ pc' = "responded" /\ ~gmail_client.set) =>
         /\ authRun'.attempted
         /\ tokenFile' = authRun'.after
         /\ ~authRun'.ok =>
              /\ response' = Envelope(<<"Error: ", authRun'.error>>, TRUE)
              /\ opCalls' = <<>> /\ provCalls' = <<>>
              /\ ~gmail_client'.set]_vars

\* a request without its required argument met a failing construction
C28_Witness ==
    /\ Responded
    /\ request.name = "gmail_get_message"
    /\ "message_id" \notin DOMAIN request.arguments
    /\ AuthFailed
    /\ response = Envelope(<<"Error: ", authRun.error>>, TRUE)
    /\ opCalls = <<>>

\* C29: the server is constructed without a client and without any
\* authentication step; a dispatch attempts the construction exactly when it
\* starts with the client unset, and the client becomes set exactly when that
\* attempt succeeded, holding the credentials it obtained; no other step
\* changes the client, so once set it is never unset or replaced, and a
\* dispatch that starts with it set runs no authentication step and leaves
\* the token artifact alone; after a failed construction the client is still
\* unset, so the next dispatch attempts the construction again.
C29_LazyAtMostOnce ==
    /\ (gmail_client = NoClient /\ authRun = NoAuthRun)
    /\ [][/\ (gmail_client' # gmail_client) =>
               (/\ pc = "idle" /\ pc' = "responded"
                /\ ~gmail_client.set /\ gmail_client'.set)
          /\ (pc = "idle" /\ pc' = "responded") =>
               (/\ authRun'.attempted <=> ~gmail_client.set
                /\ ~gmail_client.set => (gmail_client'.set <=> authRun'.ok)
                /\ gmail_client.set =>
                     (authRun'.log = <<>> /\ tokenFile' = tokenFile))]_vars

\* a failed construction has left the client unset, for the next dispatch to
\* attempt the construction again
C29_Witness ==
    /\ Responded
    /\ request.name \in RecognizedNames
    /\ AuthFailed
    /\ gmail_client = NoClient
====
